---- MODULE Spec2Model ----
(***************************************************************************)
(* The bounded worker pool of the multi-threaded web server                *)
(* (docs/rust/base/26: src/thread_pool.rs and src/server.rs).              *)
(*                                                                         *)
(* One main thread builds the pool (ThreadPool::new), runs the accept loop *)
(* of Server::run (one ThreadPool::execute per accepted connection) and,   *)
(* when it leaves the loop by a panic, drops the pool (impl Drop).  Each   *)
(* worker thread runs the loop of Worker::new: lock the shared receiver,   *)
(* recv one TaskMessage, release the lock, run the job or break on Exit.   *)
(***************************************************************************)
EXTENDS Naturals, Sequences, FiniteSets, TLC

\* ------------------------------------------------------------------ bounds
\* Largest thread_count handed to ThreadPool::new.
MaxThreads == 2
\* Number of connections the acceptor accepts in one run of the model.
MaxJobs == 4

VARIABLES
    mainPc,        \* where the main thread is: "new", "failed", "bind", "accept", "drop", "dropped", "exit0", "abort"
    thread_count,  \* the argument of ThreadPool::new
    workers,       \* ThreadPool.workers: Vec<Worker>, each [id, thread]; thread = TRUE is Some(handle)
    pc,            \* per worker id, where its thread is: "lock", "recv", "run", "exited", "panicked"
    lock,          \* the set of worker ids holding the MutexGuard of the receiver (a mutex: at most one)
    queue,         \* the mpsc channel: messages sent and not yet received, oldest first
    kind,          \* per job (index = submission order): "fast" or "slow" (GET /sleep.html)
    status,        \* per job: "queued", "running", "done", "panicked"
    runBy,         \* per job: the worker ids whose loop called job()
    runCount,      \* per job: how many times job() was called
    dropIdx,       \* drop: index into workers of the iteration of the for loop
    joining,       \* drop: the handle of workers[dropIdx] was taken and join() has not returned
    bind,          \* TcpListener::bind: "ok", "err", or "pending" (listen binds after ThreadPool::new)
    op,            \* the function of the request/response code applied to arg ("none" before)
    arg,           \* its input
    res            \* its result

vars == <<mainPc, thread_count, workers, pc, lock, queue, kind, status, runBy,
          runCount, dropIdx, joining, bind, op, arg, res>>

httpVars == <<op, arg, res>>
poolVars == <<mainPc, thread_count, workers, dropIdx, joining, bind, httpVars>>
jobVars == <<kind, status, runBy, runCount>>

\* ------------------------------------------------------------ definitions
JobKinds == {"fast", "slow"}

\* enum TaskMessage { NewTask(Job), Exit }
NewTask(j) == [tag |-> "NewTask", job |-> j]
ExitMsg == [tag |-> "Exit"]

\* Worker { id, thread: Some(handle) }
Worker_new(id) == [id |-> id, thread |-> TRUE]

\* Mutant of AssertThreadCount: the assertion written as thread_count >= 0.
AssertNonNegative(n) == n >= 0

\* assert!(thread_count > 0)
AssertThreadCount(n) == n > 0

\* for id in 0..thread_count { workers.push(Worker::new(id, ..)) }
NewWorkers(n) == [i \in 1..n |-> Worker_new(i - 1)]

WorkerIds == {workers[i].id : i \in 1..Len(workers)}

Jobs == 1..Len(kind)

\* A thread that has left its closure has dropped its Arc of the receiver; the
\* Receiver itself is dropped with the last of them, and only then does
\* Sender::send return Err.
ReceiverAlive == \E w \in WorkerIds : pc[w] \notin {"exited", "panicked"}

\* The threads of the process run only while the main thread has neither
\* returned nor aborted the process.
ProcessAlive == mainPc \in {"new", "bind", "accept", "drop"}

\* ------------------------------------------------------------------- Init
\* Server::run: the listener is bound (bind(..).unwrap()) before the pool is made.
Init ==
    /\ mainPc = "new"
    /\ thread_count \in 0..MaxThreads
    /\ workers = <<>>
    /\ pc = <<>>
    /\ lock = {}
    /\ queue = <<>>
    /\ kind = <<>>
    /\ status = <<>>
    /\ runBy = <<>>
    /\ runCount = <<>>
    /\ dropIdx = 1
    /\ joining = FALSE
    /\ bind = "ok"
    /\ op = "none"
    /\ arg = <<>>
    /\ res = <<>>

\* ---------------------------------------------------------- ThreadPool::new
New ==
    /\ mainPc = "new"
    /\ IF AssertThreadCount(thread_count)
         THEN /\ workers' = NewWorkers(thread_count)
              /\ pc' = [w \in {NewWorkers(thread_count)[i].id : i \in 1..thread_count} |-> "lock"]
              /\ mainPc' = IF bind = "pending" THEN "bind" ELSE "accept"
         ELSE /\ mainPc' = "failed"
              /\ UNCHANGED <<workers, pc>>
    /\ UNCHANGED <<bind, httpVars, thread_count, lock, queue, dropIdx, joining>>
    /\ UNCHANGED jobVars

\* Mutant of ExecuteSend: the message is put at the head of the channel.
ExecuteSendFront(k) ==
    /\ ReceiverAlive
    /\ queue' = <<NewTask(Len(kind) + 1)>> \o queue
    /\ kind' = Append(kind, k)
    /\ status' = Append(status, "queued")
    /\ runBy' = Append(runBy, {})
    /\ runCount' = Append(runCount, 0)
    /\ UNCHANGED <<mainPc, dropIdx, joining>>

\* Mutant of ExecuteSend: a channel bounded by the pool size (sync_channel),
\* whose send blocks while it is full.
ExecuteSendBounded(k) ==
    /\ ReceiverAlive
    /\ Len(queue) < thread_count
    /\ queue' = Append(queue, NewTask(Len(kind) + 1))
    /\ kind' = Append(kind, k)
    /\ status' = Append(status, "queued")
    /\ runBy' = Append(runBy, {})
    /\ runCount' = Append(runCount, 0)
    /\ UNCHANGED <<mainPc, dropIdx, joining>>

\* ------------------------------------------- Server::run + ThreadPool::execute
\* One iteration of the accept loop whose stream.unwrap() succeeds: the job is
\* boxed and sent.  send fails only when the receiver is gone, and then the
\* unwrap in execute panics and the main thread unwinds, dropping the pool.
ExecuteSend(k) ==
    /\ ReceiverAlive
    /\ queue' = Append(queue, NewTask(Len(kind) + 1))
    /\ kind' = Append(kind, k)
    /\ status' = Append(status, "queued")
    /\ runBy' = Append(runBy, {})
    /\ runCount' = Append(runCount, 0)
    /\ UNCHANGED <<mainPc, dropIdx, joining>>

ExecuteSendErr ==
    /\ ~ReceiverAlive
    /\ mainPc' = "drop"
    /\ UNCHANGED <<queue, dropIdx, joining>>
    /\ UNCHANGED jobVars

Execute(k) ==
    /\ mainPc = "accept"
    /\ Len(kind) < MaxJobs
    /\ (ExecuteSend(k) \/ ExecuteSendErr)
    /\ UNCHANGED <<bind, httpVars, thread_count, workers, pc, lock>>

\* listener.incoming() yields Err: stream.unwrap() panics, the main thread
\* unwinds out of run and the pool is dropped.
AcceptErr ==
    /\ mainPc = "accept"
    /\ mainPc' = "drop"
    /\ UNCHANGED <<bind, httpVars, thread_count, workers, pc, lock, queue, dropIdx, joining>>
    /\ UNCHANGED jobVars

\* Mutant of Lock: the guard lives as long as the job runs (while let with the
\* lock in the condition), so nobody locks while a job is running.
LockHeldDuringJob(w) ==
    /\ w \in WorkerIds
    /\ ProcessAlive
    /\ pc[w] = "lock"
    /\ lock = {}
    /\ \A v \in WorkerIds : pc[v] # "run"
    /\ lock' = {w}
    /\ pc' = [pc EXCEPT ![w] = "recv"]
    /\ UNCHANGED <<queue>>
    /\ UNCHANGED poolVars
    /\ UNCHANGED jobVars

\* Mutant of Recv: the message is read but left in the channel.
RecvPeek(w) ==
    /\ w \in WorkerIds
    /\ ProcessAlive
    /\ pc[w] = "recv"
    /\ w \in lock
    /\ queue # <<>>
    /\ queue' = queue
    /\ lock' = lock \ {w}
    /\ IF Head(queue).tag = "NewTask"
         THEN /\ pc' = [pc EXCEPT ![w] = "run"]
              /\ status' = [status EXCEPT ![Head(queue).job] = "running"]
              /\ runBy' = [runBy EXCEPT ![Head(queue).job] = @ \cup {w}]
              /\ runCount' = [runCount EXCEPT ![Head(queue).job] = @ + 1]
         ELSE /\ pc' = [pc EXCEPT ![w] = "exited"]
              /\ UNCHANGED <<status, runBy, runCount>>
    /\ UNCHANGED <<kind>>
    /\ UNCHANGED poolVars

\* Mutant of Recv: the job is started on a thread of its own and the worker
\* goes straight back to the receiver.
RecvDetached(w) ==
    /\ w \in WorkerIds
    /\ ProcessAlive
    /\ pc[w] = "recv"
    /\ w \in lock
    /\ queue # <<>>
    /\ queue' = Tail(queue)
    /\ lock' = lock \ {w}
    /\ IF Head(queue).tag = "NewTask"
         THEN /\ pc' = [pc EXCEPT ![w] = "lock"]
              /\ status' = [status EXCEPT ![Head(queue).job] = "running"]
              /\ runBy' = [runBy EXCEPT ![Head(queue).job] = @ \cup {w}]
              /\ runCount' = [runCount EXCEPT ![Head(queue).job] = @ + 1]
         ELSE /\ pc' = [pc EXCEPT ![w] = "exited"]
              /\ UNCHANGED <<status, runBy, runCount>>
    /\ UNCHANGED <<kind>>
    /\ UNCHANGED poolVars

\* Mutant of Recv: the guard of the receiver is kept in a variable that lives
\* until the end of the loop body, so it is still held while job() runs.
RecvKeepsGuard(w) ==
    /\ w \in WorkerIds
    /\ ProcessAlive
    /\ pc[w] = "recv"
    /\ w \in lock
    /\ queue # <<>>
    /\ queue' = Tail(queue)
    /\ IF Head(queue).tag = "NewTask"
         THEN /\ pc' = [pc EXCEPT ![w] = "run"]
              /\ lock' = lock
              /\ status' = [status EXCEPT ![Head(queue).job] = "running"]
              /\ runBy' = [runBy EXCEPT ![Head(queue).job] = @ \cup {w}]
              /\ runCount' = [runCount EXCEPT ![Head(queue).job] = @ + 1]
         ELSE /\ pc' = [pc EXCEPT ![w] = "exited"]
              /\ lock' = lock \ {w}
              /\ UNCHANGED <<status, runBy, runCount>>
    /\ UNCHANGED <<kind>>
    /\ UNCHANGED poolVars

\* ------------------------------------------------------ Worker::new (loop)
\* receiver.lock().unwrap()
Lock(w) ==
    /\ w \in WorkerIds
    /\ ProcessAlive
    /\ pc[w] = "lock"
    /\ lock = {}
    /\ lock' = {w}
    /\ pc' = [pc EXCEPT ![w] = "recv"]
    /\ UNCHANGED <<queue>>
    /\ UNCHANGED poolVars
    /\ UNCHANGED jobVars

\* .recv().unwrap(), the guard dropped at the end of the let statement, and the
\* match on the message up to the call of job().
Recv(w) ==
    /\ w \in WorkerIds
    /\ ProcessAlive
    /\ pc[w] = "recv"
    /\ w \in lock
    /\ queue # <<>>
    /\ queue' = Tail(queue)
    /\ lock' = lock \ {w}
    /\ IF Head(queue).tag = "NewTask"
         THEN /\ pc' = [pc EXCEPT ![w] = "run"]
              /\ status' = [status EXCEPT ![Head(queue).job] = "running"]
              /\ runBy' = [runBy EXCEPT ![Head(queue).job] = @ \cup {w}]
              /\ runCount' = [runCount EXCEPT ![Head(queue).job] = @ + 1]
         ELSE /\ pc' = [pc EXCEPT ![w] = "exited"]
              /\ UNCHANGED <<status, runBy, runCount>>
    /\ UNCHANGED <<kind>>
    /\ UNCHANGED poolVars

\* job() returns.
JobReturns(w, j) ==
    /\ w \in WorkerIds
    /\ ProcessAlive
    /\ pc[w] = "run"
    /\ status[j] = "running"
    /\ w \in runBy[j]
    /\ status' = [status EXCEPT ![j] = "done"]
    /\ pc' = [pc EXCEPT ![w] = "lock"]
    /\ UNCHANGED <<lock, queue, kind, runBy, runCount>>
    /\ UNCHANGED poolVars

JobDone(w) == \E j \in Jobs : JobReturns(w, j)

\* job() panics (an unwrap in handle_http_request or below it): the panic
\* unwinds the worker's thread, which ends.
JobPanic(w) ==
    /\ w \in WorkerIds
    /\ ProcessAlive
    /\ pc[w] = "run"
    /\ \E j \in Jobs :
         /\ status[j] = "running"
         /\ w \in runBy[j]
         /\ status' = [status EXCEPT ![j] = "panicked"]
    /\ pc' = [pc EXCEPT ![w] = "panicked"]
    /\ UNCHANGED <<lock, queue, kind, runBy, runCount>>
    /\ UNCHANGED poolVars

\* ------------------------------------------------- impl Drop for ThreadPool
\* Where the main thread goes when drop returns.  Dropped on the early return of
\* listen (bind(addr)? gave Err), listen returns the Err to main, whose
\* unwrap_or_else prints it and calls process::exit(0).  Dropped while a panic
\* unwinds the main thread, the unwinding goes on and the process ends.
AfterDrop == IF bind = "err" THEN "exit0" ELSE "dropped"

\* The head of one iteration: worker.thread.take().
DropTake ==
    /\ mainPc = "drop"
    /\ ~joining
    /\ dropIdx <= Len(workers)
    /\ IF workers[dropIdx].thread
         THEN /\ workers' = [workers EXCEPT ![dropIdx].thread = FALSE]
              /\ joining' = TRUE
              /\ UNCHANGED <<mainPc, dropIdx>>
         ELSE /\ dropIdx' = dropIdx + 1
              /\ mainPc' = IF dropIdx + 1 > Len(workers) THEN AfterDrop ELSE "drop"
              /\ UNCHANGED <<workers, joining>>
    /\ UNCHANGED <<bind, httpVars, thread_count, pc, lock, queue>>
    /\ UNCHANGED jobVars

\* thread.join().unwrap(): join returns once the thread has ended, Ok if it
\* returned and Err if it panicked; the unwrap of Err panics while the main
\* thread is already unwinding, which aborts the process.
DropJoin ==
    /\ mainPc = "drop"
    /\ joining
    /\ pc[workers[dropIdx].id] \in {"exited", "panicked"}
    /\ IF pc[workers[dropIdx].id] = "exited"
         THEN /\ joining' = FALSE
              /\ dropIdx' = dropIdx + 1
              /\ mainPc' = IF dropIdx + 1 > Len(workers) THEN AfterDrop ELSE "drop"
         ELSE /\ mainPc' = "abort"
              /\ UNCHANGED <<dropIdx, joining>>
    /\ UNCHANGED <<bind, httpVars, thread_count, workers, pc, lock, queue>>
    /\ UNCHANGED jobVars

\* ------------------------------------------------------------------- Next
Next ==
    \/ New
    \/ \E k \in JobKinds : Execute(k)
    \/ AcceptErr
    \/ \E w \in WorkerIds : Lock(w)
    \/ \E w \in WorkerIds : Recv(w)
    \/ \E w \in WorkerIds : JobDone(w)
    \/ \E w \in WorkerIds : JobPanic(w)
    \/ DropTake
    \/ DropJoin

Spec == Init /\ [][Next]_vars

\* ------------------------------------------------------ the basic server
\* listen (src/http_server.rs of the first server): ThreadPool::new comes first
\* and TcpListener::bind(addr)? after it, so the pool exists when bind fails.
ListenInit ==
    /\ mainPc = "new"
    /\ thread_count \in 0..MaxThreads
    /\ workers = <<>>
    /\ pc = <<>>
    /\ lock = {}
    /\ queue = <<>>
    /\ kind = <<>>
    /\ status = <<>>
    /\ runBy = <<>>
    /\ runCount = <<>>
    /\ dropIdx = 1
    /\ joining = FALSE
    /\ bind = "pending"
    /\ op = "none"
    /\ arg = <<>>
    /\ res = <<>>

\* TcpListener::bind(addr)? returns Ok: the accept loop starts.
BindOk ==
    /\ mainPc = "bind"
    /\ bind = "pending"
    /\ bind' = "ok"
    /\ mainPc' = "accept"
    /\ UNCHANGED <<httpVars, thread_count, workers, pc, lock, queue, dropIdx, joining>>
    /\ UNCHANGED jobVars

\* TcpListener::bind(addr)? returns Err: listen returns early, and its locals,
\* the pool among them, are dropped before the caller sees the Err.
BindErr ==
    /\ mainPc = "bind"
    /\ bind = "pending"
    /\ bind' = "err"
    /\ mainPc' = "drop"
    /\ UNCHANGED <<httpVars, thread_count, workers, pc, lock, queue, dropIdx, joining>>
    /\ UNCHANGED jobVars

ListenNext ==
    \/ New
    \/ BindOk
    \/ BindErr
    \/ \E k \in JobKinds : Execute(k)
    \/ AcceptErr
    \/ \E w \in WorkerIds : Lock(w)
    \/ \E w \in WorkerIds : Recv(w)
    \/ \E w \in WorkerIds : JobDone(w)
    \/ \E w \in WorkerIds : JobPanic(w)
    \/ DropTake
    \/ DropJoin

ListenSpec == ListenInit /\ [][ListenNext]_vars

\* Fair scheduling of the worker threads: a thread that can take the lock,
\* receive, or whose job ends (by returning or by panicking) is eventually run.
\* The main thread is scheduled like the others where it only computes (new,
\* drop); the accept loop is given no fairness: connections may stop arriving.
ThreadIds == 0..(MaxThreads - 1)

FairSpec ==
    /\ Spec
    /\ WF_vars(New)
    /\ WF_vars(DropTake)
    /\ WF_vars(DropJoin)
    /\ \A w \in ThreadIds :
         /\ WF_vars(Lock(w))
         /\ WF_vars(Recv(w))
         /\ WF_vars(JobDone(w) \/ JobPanic(w))

\* ------------------------------------------------- the /sleep.html scenario
\* spec.md section 8, Concurrency and Scenario 5: one request for /sleep.html
\* and as many fast requests as the pool has workers, all of which are served.
SleepScenario(k) ==
    IF k = "slow"
      THEN \A j \in Jobs : kind[j] # "slow"
      ELSE Cardinality({j \in Jobs : kind[j] = "fast"}) < thread_count

ExecuteScenario == \E k \in JobKinds : SleepScenario(k) /\ Execute(k)

NextSleep ==
    \/ New
    \/ ExecuteScenario
    \/ \E w \in WorkerIds : Lock(w)
    \/ \E w \in WorkerIds : Recv(w)
    \/ \E w \in WorkerIds : JobDone(w)

\* thread::sleep keeps the slow job from returning for as long as it likes: only
\* the return of a fast job is fair.
FastJobDone(w) == \E j \in Jobs : kind[j] = "fast" /\ JobReturns(w, j)

SleepSpec ==
    /\ Init
    /\ [][NextSleep]_vars
    /\ \A w \in ThreadIds :
         /\ WF_vars(Lock(w))
         /\ WF_vars(Recv(w))
         /\ WF_vars(FastJobDone(w))

\* ----------------------------------------------------------------- claims
\* How many NewTask messages in the channel carry job j.
InQueue(j) ==
    Cardinality({i \in 1..Len(queue) : queue[i].tag = "NewTask" /\ queue[i].job = j})

Running == {j \in Jobs : status[j] = "running"}

RunningOn(w) == {j \in Running : w \in runBy[j]}

\* C1: every submitted job is run by exactly one worker, exactly once: it is
\* never run twice nor by two workers, and it has left the channel if and only
\* if a worker has called it.
C1_ExactlyOnce ==
    \A j \in Jobs :
        /\ runCount[j] <= 1
        /\ Cardinality(runBy[j]) <= 1
        /\ InQueue(j) + runCount[j] = 1
        /\ (status[j] = "queued") <=> (InQueue(j) = 1)
        /\ Cardinality(runBy[j]) = runCount[j]

C1_Witness ==
    /\ thread_count > 1
    /\ \E a, b \in Jobs :
         /\ a # b
         /\ status[a] = "done" /\ runCount[a] = 1
         /\ status[b] = "done" /\ runCount[b] = 1
         /\ runBy[a] # runBy[b]

\* C2 (as claimed): once the pool is being dropped, the drop goes on to its end:
\* while drop has not returned, some thread of the process can take a step.
C2_ShutdownTerminates == (mainPc = "drop") => ENABLED Next

\* C3 (as claimed): when the teardown of the pool is over, every job submitted
\* before it has been run to its end: none is still queued and none was cut
\* off in the middle of its run.
C3_JobsCompleteBeforeTeardownEnds ==
    (mainPc \in {"dropped", "abort"}) =>
        \A j \in Jobs : status[j] \notin {"queued", "running"}

\* C4 (as claimed): whatever the jobs did, every worker of the pool is alive.
C4_WorkersSurviveJobs == \A w \in WorkerIds : pc[w] # "panicked"

C6_AtMostPoolSizeRunning ==
    /\ Cardinality(Running) <= thread_count
    /\ \A w \in WorkerIds : Cardinality(RunningOn(w)) <= 1
    /\ \A j \in Running : runBy[j] \subseteq WorkerIds
    /\ Len(workers) <= thread_count
    /\ Cardinality(WorkerIds) <= thread_count

C6_Witness ==
    /\ thread_count > 1
    /\ Cardinality(Running) = thread_count
    /\ queue # <<>>

\* C7: while the main thread is in the accept loop and the receiver exists,
\* execute can always enqueue one more job and return to the loop, whatever the
\* workers are doing and however many jobs are already queued.
ExecuteReturns ==
    \E k \in JobKinds :
        /\ Execute(k)
        /\ mainPc' = "accept"
        /\ Len(queue') = Len(queue) + 1

C7_AcceptNeverWaits ==
    (mainPc = "accept" /\ Len(kind) < MaxJobs /\ ReceiverAlive) => ENABLED ExecuteReturns

\* Every worker is busy, more jobs are queued than the pool has workers, and the
\* acceptor is still in its loop.
C7_Witness ==
    /\ mainPc = "accept"
    /\ \A w \in WorkerIds : pc[w] = "run"
    /\ Len(queue) > thread_count
    /\ Len(kind) < MaxJobs

\* C8: jobs leave the channel in submission order: a job is dequeued only after
\* every job submitted before it, and the channel holds jobs oldest first.
C8_FifoDequeue ==
    /\ \A a, b \in Jobs : (a < b /\ status[b] # "queued") => status[a] # "queued"
    /\ \A i, k \in 1..Len(queue) :
         (i < k /\ queue[i].tag = "NewTask" /\ queue[k].tag = "NewTask")
            => queue[i].job < queue[k].job

\* The later job is done while the earlier one is still running.
C8_Witness ==
    \E a, b \in Jobs : a < b /\ status[a] = "running" /\ status[b] = "done"

\* C9 (as claimed): under fair scheduling, with every job's execution ending,
\* every submitted job is eventually called by some worker.
C9_EventuallyExecuted ==
    \A j \in 1..MaxJobs : (j \in Jobs) ~> (j \in Jobs /\ runCount[j] > 0)

\* C10: new(0) fails and leaves no pool; new(n), n > 0, makes exactly n workers
\* with ids 0..n-1, and no later step (execute among them) changes that set.
C10_NewMakesExactlyNWorkers ==
    (mainPc # "new") =>
        /\ (thread_count = 0) <=> (mainPc = "failed")
        /\ (mainPc = "failed") => (workers = <<>> /\ DOMAIN pc = {})
        /\ (thread_count > 0) =>
             /\ Len(workers) = thread_count
             /\ \A i \in 1..Len(workers) : workers[i].id = i - 1
             /\ DOMAIN pc = 0..(thread_count - 1)

C10_Witness ==
    /\ mainPc = "accept"
    /\ Len(workers) = MaxThreads
    /\ WorkerIds = 0..(MaxThreads - 1)
    /\ Len(kind) > 1

\* ==================================================== request and response
\* The second server's src/request.rs, src/router.rs, src/handler.rs and
\* src/response.rs.  A text (String, &str) is a sequence of characters, each a
\* string of length one.

\* char::is_whitespace, for the characters that occur here.
WhiteSpace == {" ", "\t", "\r", "\n"}

\* The first index of s that holds c (s is known to hold it).
IndexOf(s, c) == CHOOSE i \in 1..Len(s) : s[i] = c /\ \A k \in 1..(i - 1) : s[k] # c

\* str::contains(pat)
Contains(s, pat) ==
    \E i \in 1..Len(s) :
        /\ i + Len(pat) <= Len(s) + 1
        /\ SubSeq(s, i, i + Len(pat) - 1) = pat

\* str::starts_with(pat)
StartsWith(s, pat) == Len(pat) <= Len(s) /\ SubSeq(s, 1, Len(pat)) = pat

\* str::ends_with(pat)
EndsWith(s, pat) ==
    /\ Len(pat) <= Len(s)
    /\ SubSeq(s, Len(s) - Len(pat) + 1, Len(s)) = pat

\* str::split(c).collect(): every piece between two separators, empty ones too.
RECURSIVE Split(_, _)
Split(s, c) ==
    IF \A i \in 1..Len(s) : s[i] # c
      THEN <<s>>
      ELSE <<SubSeq(s, 1, IndexOf(s, c) - 1)>>
             \o Split(SubSeq(s, IndexOf(s, c) + 1, Len(s)), c)

\* str::trim_start, str::trim_end, str::trim
RECURSIVE TrimStart(_)
TrimStart(s) == IF s # <<>> /\ Head(s) \in WhiteSpace THEN TrimStart(Tail(s)) ELSE s

RECURSIVE TrimEnd(_)
TrimEnd(s) ==
    IF s # <<>> /\ s[Len(s)] \in WhiteSpace THEN TrimEnd(SubSeq(s, 1, Len(s) - 1)) ELSE s

Trim(s) == TrimEnd(TrimStart(s))

\* The leading characters of s up to its first white space.
RECURSIVE FirstWord(_)
FirstWord(s) ==
    IF s = <<>> \/ Head(s) \in WhiteSpace THEN <<>> ELSE <<Head(s)>> \o FirstWord(Tail(s))

\* str::split_whitespace().collect(): the maximal runs without white space.
RECURSIVE SplitWhitespace(_)
SplitWhitespace(s) ==
    IF TrimStart(s) = <<>>
      THEN <<>>
      ELSE <<FirstWord(TrimStart(s))>>
             \o SplitWhitespace(SubSeq(TrimStart(s), Len(FirstWord(TrimStart(s))) + 1,
                                       Len(TrimStart(s))))

\* One line of str::lines(): a line ended by "\n" loses a "\r" before it.
StripCR(l) == IF l # <<>> /\ l[Len(l)] = "\r" THEN SubSeq(l, 1, Len(l) - 1) ELSE l

\* str::lines().collect(): the pieces ended by "\n", without their line ending,
\* and the rest of the text as a last line when it is not empty.
Lines(s) ==
    LET pieces == Split(s, "\n")
        n == Len(pieces)
    IN  [i \in 1..(n - 1) |-> StripCR(pieces[i])]
          \o (IF pieces[n] = <<>> THEN <<>> ELSE <<pieces[n]>>)

\* Concatenation of a sequence of texts.
RECURSIVE Concat(_)
Concat(ts) == IF ts = <<>> THEN <<>> ELSE Head(ts) \o Concat(Tail(ts))

\* ---------------------------------------------------------- src/request.rs

\* impl From<&str> for Method
Method_from(s) ==
    CASE s = <<"G", "E", "T">> -> "Get"
      [] s = <<"P", "O", "S", "T">> -> "Post"
      [] s = <<"P", "U", "T">> -> "Put"
      [] s = <<"P", "A", "T", "C", "H">> -> "Patch"
      [] s = <<"D", "E", "L", "E", "T", "E">> -> "Delete"
      [] OTHER -> "Uninitialized"

\* impl From<&str> for ProtocolVersion
ProtocolVersion_from(s) ==
    CASE s = <<"H", "T", "T", "P", "/", "1", ".", "1">> -> "HTTP1_1"
      [] s = <<"H", "T", "T", "P", "/", "2">> -> "HTTP2"
      [] OTHER -> "Uninitialized"

\* A failed unwrap() or an index out of bounds: the calling thread panics.
Panicked == [ok |-> FALSE]

\* process_req_line: the first three words of the line; each words.next().unwrap()
\* panics when the line has no further word.
process_req_line(line) ==
    LET words == SplitWhitespace(line)
    IN  IF Len(words) < 3
          THEN Panicked
          ELSE [ok |-> TRUE,
                method |-> Method_from(words[1]),
                resource |-> words[2],
                protocol_version |-> ProtocolVersion_from(words[3])]

\* process_header: the first two pieces of line.split(":"), trimmed; a second
\* piece that does not exist leaves val empty.
process_header(line) ==
    LET iter == Split(line, ":")
    IN  [key |-> Trim(iter[1]),
         val |-> IF Len(iter) >= 2 THEN Trim(iter[2]) ELSE <<>>]

\* HashMap::insert
Insert(headers, key, val) ==
    [k \in (DOMAIN headers) \cup {key} |-> IF k = key THEN val ELSE headers[k]]

\* The local variables of Request::from before its loop.
RequestInit ==
    [ok |-> TRUE,
     method |-> "Uninitialized",
     protocol_version |-> "Uninitialized",
     resource |-> <<>>,
     headers |-> <<>>,
     body |-> <<>>]

\* One turn of the loop with a body that collects its lines instead of being
\* replaced by each of them.
RequestLineCollectsBody(req, line) ==
    IF Contains(line, <<"H", "T", "T", "P">>)
      THEN LET t == process_req_line(line)
           IN  IF t.ok
                 THEN [req EXCEPT !.method = t.method,
                                  !.resource = t.resource,
                                  !.protocol_version = t.protocol_version]
                 ELSE Panicked
      ELSE IF Contains(line, <<":">>)
        THEN [req EXCEPT !.headers =
                 Insert(req.headers, process_header(line).key, process_header(line).val)]
        ELSE IF line = <<>>
          THEN req
          ELSE [req EXCEPT !.body = req.body \o line]

\* One turn of the loop of Request::from over a line.
RequestLine(req, line) ==
    IF Contains(line, <<"H", "T", "T", "P">>)
      THEN LET t == process_req_line(line)
           IN  IF t.ok
                 THEN [req EXCEPT !.method = t.method,
                                  !.resource = t.resource,
                                  !.protocol_version = t.protocol_version]
                 ELSE Panicked
      ELSE IF Contains(line, <<":">>)
        THEN [req EXCEPT !.headers =
                 Insert(req.headers, process_header(line).key, process_header(line).val)]
        ELSE IF line = <<>>
          THEN req
          ELSE [req EXCEPT !.body = line]

\* The loop of Request::from: the lines in order, ended by a panic.
RECURSIVE RequestLoop(_, _)
RequestLoop(req, lines) ==
    IF lines = <<>> \/ ~req.ok
      THEN req
      ELSE RequestLoop(RequestLine(req, Head(lines)), Tail(lines))

\* impl From<String> for Request
Request_from(req_str) == RequestLoop(RequestInit, Lines(req_str))

\* --------------------------------------------------------- src/response.rs

\* Option<T>: None is the empty sequence, Some(x) the sequence of x alone.
None == <<>>

Some(x) == <<x>>

\* The characters that take two bytes in UTF-8, written by their code point;
\* every other character here takes one.
TwoByteChars == {"U+00E9"}

\* str::len: the length of a text in bytes.
RECURSIVE ByteLen(_)
ByteLen(s) ==
    IF s = <<>>
      THEN 0
      ELSE (IF Head(s) \in TwoByteChars THEN 2 ELSE 1) + ByteLen(Tail(s))

\* Display for usize: the decimal digits of n.
RECURSIVE Decimal(_)
Decimal(n) ==
    IF n < 10
      THEN <<<<"0", "1", "2", "3", "4", "5", "6", "7", "8", "9">>[n + 1]>>
      ELSE Decimal(n \div 10) \o Decimal(n % 10)

\* Response::new keeping the status text of Response::default for a status code
\* without an arm of its own.
ResponseNewKeepsDefaultText(status_code, headers, body) ==
    [protocol_version |-> <<"H", "T", "T", "P", "/", "1", ".", "1">>,
     status_code |-> status_code,
     status_text |->
         CASE status_code = <<"4", "0", "0">> -> <<"B", "a", "d", " ", "R", "e", "q", "u", "e", "s", "t">>
           [] status_code = <<"4", "0", "4">> -> <<"N", "o", "t", " ", "F", "o", "u", "n", "d">>
           [] status_code = <<"5", "0", "0">> -> <<"I", "n", "t", "e", "r", "n", "a", "l", " ", "S", "e", "r", "v", "e", "r", " ", "E", "r", "r", "o", "r">>
           [] OTHER -> <<"O", "K">>,
     headers |->
         IF headers # None
           THEN headers
           ELSE Some([k \in {<<"C", "o", "n", "t", "e", "n", "t", "-", "T", "y", "p", "e">>} |-> <<"t", "e", "x", "t", "/", "p", "l", "a", "i", "n">>]),
     body |-> body]

\* Response::new
Response_new(status_code, headers, body) ==
    [protocol_version |-> <<"H", "T", "T", "P", "/", "1", ".", "1">>,
     status_code |-> status_code,
     status_text |->
         CASE status_code = <<"2", "0", "0">> -> <<"O", "K">>
           [] status_code = <<"4", "0", "0">> -> <<"B", "a", "d", " ", "R", "e", "q", "u", "e", "s", "t">>
           [] status_code = <<"5", "0", "0">> -> <<"I", "n", "t", "e", "r", "n", "a", "l", " ", "S", "e", "r", "v", "e", "r", " ", "E", "r", "r", "o", "r">>
           [] OTHER -> <<"N", "o", "t", " ", "F", "o", "u", "n", "d">>,
     headers |->
         IF headers # None
           THEN headers
           ELSE Some([k \in {<<"C", "o", "n", "t", "e", "n", "t", "-", "T", "y", "p", "e">>} |-> <<"t", "e", "x", "t", "/", "p", "l", "a", "i", "n">>]),
     body |-> body]

\* Response::body
Response_body(r) == IF r.body # None THEN r.body[1] ELSE <<>>

\* The text of a response with the characters of the body counted, not its
\* bytes.
ResponseWithCharCount(r) ==
    Concat(<<r.protocol_version, <<" ">>, r.status_code, <<" ">>, r.status_text,
             <<"\r", "\n">>, <<"C", "o", "n", "t", "e", "n", "t", "-", "L", "e", "n", "g", "t", "h", ":">>, Decimal(Len(Response_body(r))),
             <<"\r", "\n", "\r", "\n">>, Response_body(r)>>)

\* impl From<Response> for String: the format string has no place for the
\* headers held by the Response.
Response_into_String(r) ==
    Concat(<<r.protocol_version, <<" ">>, r.status_code, <<" ">>, r.status_text,
             <<"\r", "\n">>, <<"C", "o", "n", "t", "e", "n", "t", "-", "L", "e", "n", "g", "t", "h", ":">>, Decimal(ByteLen(Response_body(r))),
             <<"\r", "\n", "\r", "\n">>, Response_body(r)>>)

\* ---------------------------------------------------------- src/handler.rs

\* The directory named by PUBLIC_PATH, relative to the working directory.
PublicPath == <<"p", "u", "b", "l", "i", "c">>

\* The file the operating system opens for a path: its segments with "" and
\* "." dropped and ".." leaving the directory entered last.
RECURSIVE Resolve(_, _)
Resolve(done, segs) ==
    IF segs = <<>>
      THEN done
      ELSE IF Head(segs) \in {<<>>, <<".">>}
        THEN Resolve(done, Tail(segs))
        ELSE IF Head(segs) = <<".", ".">>
          THEN Resolve(IF done = <<>> THEN <<>> ELSE SubSeq(done, 1, Len(done) - 1),
                       Tail(segs))
          ELSE Resolve(Append(done, Head(segs)), Tail(segs))

\* Handler::load_file: files maps the resolved path of each regular file to
\* its contents; a path that names no regular file gives None.
load_file(files, file_name) ==
    LET file_path == Concat(<<PublicPath, <<"/">>, file_name>>)
        file == Resolve(<<>>, Split(file_path, "/"))
    IN  [path |-> file_path,
         contents |-> IF file \in DOMAIN files THEN Some(files[file]) ELSE None]

\* What a handler did: the response it built, the files it read in order and
\* whether it slept.
Handled(response, loaded, slept) ==
    [ok |-> TRUE, response |-> response, loaded |-> loaded, slept |-> slept]

\* NotFoundHandler reporting a server error when it cannot read its page.
NotFoundNeedsItsPage(files, req) ==
    LET f == load_file(files, <<"4", "0", "4", ".", "h", "t", "m", "l">>)
    IN  Handled(Response_new(IF f.contents = None THEN <<"5", "0", "0">> ELSE <<"4", "0", "4">>, None, f.contents),
                <<f.path>>, FALSE)

\* impl Handler for NotFoundHandler
NotFoundHandler_handle(files, req) ==
    LET f == load_file(files, <<"4", "0", "4", ".", "h", "t", "m", "l">>)
    IN  Handled(Response_new(<<"4", "0", "4">>, None, f.contents), <<f.path>>, FALSE)

\* The Content-Type StaticFileHandler gives to a file by the end of its name.
ContentTypeOf(path) ==
    IF EndsWith(path, <<".", "c", "s", "s">>) THEN <<"t", "e", "x", "t", "/", "c", "s", "s">>
    ELSE IF EndsWith(path, <<".", "j", "s">>) THEN <<"t", "e", "x", "t", "/", "j", "a", "v", "a", "s", "c", "r", "i", "p", "t">>
    ELSE IF EndsWith(path, <<".", "h", "t", "m", "l">>) THEN <<"t", "e", "x", "t", "/", "h", "t", "m", "l">>
    ELSE <<"t", "e", "x", "t", "/", "p", "l", "a", "i", "n">>

\* impl Handler for StaticFileHandler: route[1] is the file, and indexing it
\* panics when the path has no '/'.
StaticFileHandler_handle(files, req) ==
    LET route == Split(req.resource, "/")
        headers(t) == Some([k \in {<<"C", "o", "n", "t", "e", "n", "t", "-", "T", "y", "p", "e">>} |-> t])
    IN  IF Len(route) < 2
          THEN Panicked
          ELSE IF route[2] \in {<<>>, <<"i", "n", "d", "e", "x", ".", "h", "t", "m", "l">>}
            THEN LET f == load_file(files, <<"i", "n", "d", "e", "x", ".", "h", "t", "m", "l">>)
                 IN  Handled(Response_new(<<"2", "0", "0">>, headers(<<"t", "e", "x", "t", "/", "h", "t", "m", "l">>), f.contents),
                             <<f.path>>, FALSE)
            ELSE IF route[2] = <<"s", "l", "e", "e", "p", ".", "h", "t", "m", "l">>
              THEN LET f == load_file(files, <<"s", "l", "e", "e", "p", ".", "h", "t", "m", "l">>)
                   IN  Handled(Response_new(<<"2", "0", "0">>, headers(<<"t", "e", "x", "t", "/", "h", "t", "m", "l">>), f.contents),
                               <<f.path>>, TRUE)
              ELSE LET f == load_file(files, route[2])
                       n == NotFoundHandler_handle(files, req)
                   IN  IF f.contents # None
                         THEN Handled(Response_new(<<"2", "0", "0">>, headers(ContentTypeOf(route[2])),
                                                   f.contents),
                                      <<f.path>>, FALSE)
                         ELSE Handled(n.response, <<f.path>> \o n.loaded, FALSE)

\* impl Handler for ApiHandler
ApiHandler_handle(files, req) ==
    Handled(Response_new(<<"2", "0", "0">>, Some([k \in {<<"C", "o", "n", "t", "e", "n", "t", "-", "T", "y", "p", "e">>} |-> <<"a", "p", "p", "l", "i", "c", "a", "t", "i", "o", "n", "/", "j", "s", "o", "n">>]),
                         Some(<<"{", "\"", "e", "r", "r", "n", "o", "\"", ":", "0", ",", "\"", "m", "s", "g", "\"", ":", "\"", "s", "u", "c", "c", "e", "s", "s", "\"", ",", " ", "\"", "d", "a", "t", "a", "\"", ":", " ", "n", "u", "l", "l", "}">>)),
            <<>>, FALSE)

\* Response::send: one write_all of the text of the response; an error of the
\* stream is returned to the caller.
Response_send(r, writeOk) == [ok |-> writeOk, bytes |-> Response_into_String(r)]

\* ----------------------------------------------------------- src/router.rs

\* What Router::route did: whether it returned or panicked, the handler it
\* selected, what that handler did and the calls of send in order.
Routed(returned, selected, h, sent) ==
    [returned |-> returned, selected |-> selected, sent |-> sent,
     loaded |-> IF h.ok THEN h.loaded ELSE <<>>,
     slept |-> IF h.ok THEN h.slept ELSE FALSE]

\* The call of send for the response of a handler, and unwrap() of its result.
SendResponse(selected, h, writeOk) ==
    LET s == Response_send(h.response, writeOk)
    IN  Routed(s.ok, selected, h, <<[response |-> h.response, bytes |-> s.bytes, ok |-> s.ok]>>)

\* Router::route without the return that ends the GET branch.
RouteFallThrough(files, req, writeOk) ==
    LET route == Split(req.resource, "/")
        first == IF route[2] = <<"a", "p", "i">>
                   THEN SendResponse("ApiHandler", ApiHandler_handle(files, req), writeOk)
                   ELSE SendResponse("StaticFileHandler",
                                     StaticFileHandler_handle(files, req), writeOk)
        last == SendResponse("NotFoundHandler", NotFoundHandler_handle(files, req), writeOk)
    IN  IF req.method = "Get"
          THEN IF Len(route) < 2
                 THEN Routed(FALSE, "none", Panicked, <<>>)
                 ELSE [first EXCEPT !.sent = IF first.returned THEN first.sent \o last.sent
                                                                  ELSE first.sent]
          ELSE last

\* Router::route looking at the path before the method.
RoutePathFirst(files, req, writeOk) ==
    LET route == Split(req.resource, "/")
    IN  IF Len(route) >= 2 /\ route[2] = <<"a", "p", "i">>
          THEN SendResponse("ApiHandler", ApiHandler_handle(files, req), writeOk)
          ELSE IF req.method = "Get" /\ Len(route) >= 2
            THEN SendResponse("StaticFileHandler",
                              StaticFileHandler_handle(files, req), writeOk)
            ELSE SendResponse("NotFoundHandler", NotFoundHandler_handle(files, req), writeOk)

\* Router::route: a GET request goes to ApiHandler or StaticFileHandler by
\* route[1], whose indexing panics when the path has no '/'; every other
\* request goes to NotFoundHandler.  Each branch calls send once.
Router_route(files, req, writeOk) ==
    LET route == Split(req.resource, "/")
    IN  IF req.method = "Get"
          THEN IF Len(route) < 2
                 THEN Routed(FALSE, "none", Panicked, <<>>)
                 ELSE IF route[2] = <<"a", "p", "i">>
                   THEN SendResponse("ApiHandler", ApiHandler_handle(files, req), writeOk)
                   ELSE SendResponse("StaticFileHandler",
                                     StaticFileHandler_handle(files, req), writeOk)
          ELSE SendResponse("NotFoundHandler", NotFoundHandler_handle(files, req), writeOk)

\* ----------------------------------------------------------- src/server.rs

\* The length of the buffer of handle_http_request (1024 in the source).
BufferSize == 64

\* The byte 0, which is no white space.
NUL == "NUL"

\* The buffer after Read::read: the bytes received, as many as fit, and zeros.
Buffer(text) ==
    [i \in 1..BufferSize |-> IF i <= Len(text) THEN text[i] ELSE NUL]

\* handle_http_request on a connection conn: the text its client sends, the
\* files on disk and whether reading and writing the stream succeed.  The
\* stream is owned by the job and closed when the job ends, also by a panic.
handle_http_request(conn) ==
    LET request == Request_from(Buffer(conn.text))
        routed == Router_route(conn.files, request, conn.writeOk)
        failed(r) == [returned |-> FALSE, reads |-> 1, selected |-> "none", sent |-> <<>>,
                      loaded |-> <<>>, slept |-> FALSE, closed |-> TRUE, request |-> r]
    IN  IF ~conn.readOk
          THEN failed(Panicked)
          ELSE IF ~request.ok
            THEN failed(request)
            ELSE [returned |-> routed.returned, reads |-> 1, selected |-> routed.selected,
                  sent |-> routed.sent, loaded |-> routed.loaded, slept |-> routed.slept,
                  closed |-> TRUE, request |-> request]

\* ------------------------------------------- one connection and its job
\* The thread pool, left as Server::run finds it, while one function of the
\* request path is looked at.
PoolIdle ==
    /\ mainPc = "new"
    /\ thread_count = MaxThreads
    /\ workers = <<>>
    /\ pc = <<>>
    /\ lock = {}
    /\ queue = <<>>
    /\ kind = <<>>
    /\ status = <<>>
    /\ runBy = <<>>
    /\ runCount = <<>>
    /\ dropIdx = 1
    /\ joining = FALSE
    /\ bind = "ok"

\* The texts a client sends on a connection.
ClientTexts ==
    { <<>>,
      <<"G", "E", "T", " ", "/", " ", "H", "T", "T", "P", "/", "1", ".", "1", "\r", "\n", "\r", "\n">>,
      <<"G", "E", "T", " ", "/", "i", "n", "d", "e", "x", ".", "h", "t", "m", "l", " ", "H", "T", "T", "P", "/", "1", ".", "1", "\r", "\n", "H", "o", "s", "t", ":", " ", "l", "o", "c", "a", "l", "h", "o", "s", "t", ":", "3", "0", "0", "0", "\r", "\n", "\r", "\n">>,
      <<"G", "E", "T", " ", "/", "a", "p", "i", "/", "u", "s", "e", "r", " ", "H", "T", "T", "P", "/", "1", ".", "1", "\r", "\n", "\r", "\n">>,
      <<"G", "E", "T", " ", "/", "a", "p", "i", " ", "H", "T", "T", "P", "/", "1", ".", "1", "\r", "\n", "\r", "\n">>,
      <<"G", "E", "T", " ", "/", "/", "a", "p", "i", "/", "u", "s", "e", "r", " ", "H", "T", "T", "P", "/", "1", ".", "1", "\r", "\n", "\r", "\n">>,
      <<"G", "E", "T", " ", "a", "p", "i", "/", "u", "s", "e", "r", " ", "H", "T", "T", "P", "/", "1", ".", "1", "\r", "\n", "\r", "\n">>,
      <<"G", "E", "T", " ", "u", "s", "e", "r", "/", "a", "p", "i", " ", "H", "T", "T", "P", "/", "1", ".", "1", "\r", "\n", "\r", "\n">>,
      <<"G", "E", "T", " ", "/", "a", "p", "i", "s", " ", "H", "T", "T", "P", "/", "1", ".", "1", "\r", "\n", "\r", "\n">>,
      <<"G", "E", "T", " ", "/", "a", ".", "c", "s", "s", " ", "H", "T", "T", "P", "/", "1", ".", "1", "\r", "\n", "\r", "\n">>,
      <<"G", "E", "T", " ", "/", "c", "s", "s", "/", "a", ".", "c", "s", "s", " ", "H", "T", "T", "P", "/", "1", ".", "1", "\r", "\n", "\r", "\n">>,
      <<"G", "E", "T", " ", "/", "m", "i", "s", "s", "i", "n", "g", ".", "x", "y", "z", " ", "H", "T", "T", "P", "/", "1", ".", "1", "\r", "\n", "\r", "\n">>,
      <<"G", "E", "T", " ", "/", "s", "l", "e", "e", "p", ".", "h", "t", "m", "l", " ", "H", "T", "T", "P", "/", "1", ".", "1", "\r", "\n", "\r", "\n">>,
      <<"G", "E", "T", " ", "/", ".", ".", " ", "H", "T", "T", "P", "/", "1", ".", "1", "\r", "\n", "\r", "\n">>,
      <<"G", "E", "T", " ", "/", ".", ".", "/", "s", "e", "c", "r", "e", "t", " ", "H", "T", "T", "P", "/", "1", ".", "1", "\r", "\n", "\r", "\n">>,
      <<"G", "E", "T", " ", "/", "i", "n", "d", "e", "x", ".", "h", "t", "m", "l", "/", ".", ".", "/", ".", ".", "/", "s", "e", "c", "r", "e", "t", " ", "H", "T", "T", "P", "/", "1", ".", "1", "\r", "\n", "\r", "\n">>,
      <<"G", "E", "T", " ", "i", "n", "d", "e", "x", ".", "h", "t", "m", "l", " ", "H", "T", "T", "P", "/", "1", ".", "1", "\r", "\n", "\r", "\n">>,
      <<"G", "E", "T", " ", "/", "i", "n", "d", "e", "x", ".", "h", "t", "m", "l", " ", "H", "T", "T", "P", "/", "2", "\r", "\n", "\r", "\n">>,
      <<"P", "O", "S", "T", " ", "/", " ", "H", "T", "T", "P", "/", "1", ".", "1", "\r", "\n", "\r", "\n">>,
      <<"P", "O", "S", "T", " ", "/", "a", "p", "i", "/", "u", "s", "e", "r", " ", "H", "T", "T", "P", "/", "1", ".", "1", "\r", "\n", "\r", "\n", "n", "a", "m", "e", "=", "a">>,
      <<"D", "E", "L", "E", "T", "E", " ", "/", "i", "n", "d", "e", "x", ".", "h", "t", "m", "l", " ", "H", "T", "T", "P", "/", "1", ".", "1", "\r", "\n", "\r", "\n">>,
      <<"H", "E", "A", "D", " ", "/", " ", "H", "T", "T", "P", "/", "1", ".", "1", "\r", "\n", "\r", "\n">>,
      <<"B", "R", "E", "W", " ", "/", "a", "p", "i", "/", "p", "o", "t", " ", "H", "T", "T", "P", "/", "1", ".", "1", "\r", "\n", "\r", "\n">>,
      <<"G", "E", "T", " ", "H", "T", "T", "P", "/", "1", ".", "1", "\r", "\n", "\r", "\n">> }

\* The regular files on disk, each by its resolved path.
AllFiles ==
    (<<PublicPath, <<"i", "n", "d", "e", "x", ".", "h", "t", "m", "l">>>> :> <<"<", "h", "1", ">", "i", "n", "d", "e", "x", "<", "/", "h", "1", ">">>)
      @@ (<<PublicPath, <<"4", "0", "4", ".", "h", "t", "m", "l">>>> :> <<"4", "0", "4", " ", "U+00E9">>)
      @@ (<<PublicPath, <<"s", "l", "e", "e", "p", ".", "h", "t", "m", "l">>>> :> <<"s", "l", "e", "e", "p">>)
      @@ (<<PublicPath, <<"a", ".", "c", "s", "s">>>> :> <<"a", "{", "}">>)
      @@ (<<PublicPath, <<"c", "s", "s">>, <<"a", ".", "c", "s", "s">>>> :> <<"b", "{", "}">>)
      @@ (<<<<"s", "e", "c", "r", "e", "t">>>> :> <<"k", "e", "y">>)

\* The 404 page on disk.
NotFoundPage == <<PublicPath, <<"4", "0", "4", ".", "h", "t", "m", "l">>>>

\* The same disk without some of its files.
Without(files, gone) == [f \in (DOMAIN files) \ gone |-> files[f]]

FileSystems ==
    { AllFiles,
      Without(AllFiles, {<<PublicPath, <<"4", "0", "4", ".", "h", "t", "m", "l">>>>}),
      Without(AllFiles, {<<PublicPath, <<"i", "n", "d", "e", "x", ".", "h", "t", "m", "l">>>>, <<PublicPath, <<"a", ".", "c", "s", "s">>>>}) }

\* The accepted connections a job may be given.
Connections ==
    [text : ClientTexts, files : FileSystems, readOk : BOOLEAN, writeOk : BOOLEAN]

\* A connection has been accepted and its job has been taken by a worker.
ConnInit ==
    /\ PoolIdle
    /\ op = "accepted"
    /\ arg \in Connections
    /\ res = <<>>

\* The job of Server::run: handle_http_request(&mut stream), from its read to
\* the end of the closure, where the stream is dropped.
HandleHttpRequest ==
    /\ op = "accepted"
    /\ op' = "handled"
    /\ res' = handle_http_request(arg)
    /\ UNCHANGED <<arg, mainPc, thread_count, workers, pc, lock, queue, dropIdx, joining, bind>>
    /\ UNCHANGED jobVars

ConnNext == HandleHttpRequest

ConnSpec == ConnInit /\ [][ConnNext]_vars

\* ------------------------------------------------- the parser on its own
\* The tokens request lines are made of.
MethodTokens == {<<"G", "E", "T">>, <<"P", "O", "S", "T">>, <<"P", "U", "T">>, <<"P", "A", "T", "C", "H">>, <<"D", "E", "L", "E", "T", "E">>, <<"H", "E", "A", "D">>, <<"O", "P", "T", "I", "O", "N", "S">>}

PathTokens == {<<"/">>, <<"/", "t", "e", "s", "t", ".", "h", "t", "m", "l">>, <<"/", "a", "p", "i", "/", "x">>}

VersionTokens == {<<"H", "T", "T", "P", "/", "1", ".", "1">>, <<"H", "T", "T", "P", "/", "2">>, <<"H", "T", "T", "P", "/", "1", ".", "0">>}

\* "METHOD PATH VERSION"
RequestLineOf(m, p, v) == Concat(<<m, <<" ">>, p, <<" ">>, v>>)

\* What may stand before and after a request line.
LineStarts == {<<>>, <<" ">>}

LineEnds == {<<>>, <<"\r", "\n">>, <<" ", "\r", "\n">>}

\* The headers and body of the request of the test of Request::from.
TestTail == <<"\r", "\n", "A", "c", "c", "e", "p", "t", ":", "t", "e", "x", "t", "/", "h", "t", "m", "l", "\r", "\n", "H", "o", "s", "t", ":", "l", "o", "c", "a", "l", "h", "o", "s", "t", "\r", "\n", "\r", "\n", "h", "e", "l", "l", "o">>

\* A request line of three tokens, alone or followed by headers and a body.
RequestLineTexts ==
    { Concat(<<s, RequestLineOf(m, p, v), e>>) :
        s \in LineStarts, m \in MethodTokens, p \in PathTokens, v \in VersionTokens,
        e \in LineEnds \cup {TestTail} }

\* Header lines.
HeaderLines ==
    { <<"A", "c", "c", "e", "p", "t", ":", "t", "e", "x", "t", "/", "h", "t", "m", "l">>,
      <<" ", "H", "o", "s", "t", " ", ":", " ", "l", "o", "c", "a", "l", "h", "o", "s", "t", " ">>,
      <<"H", "o", "s", "t", ":", " ", "l", "o", "c", "a", "l", "h", "o", "s", "t", ":", "3", "0", "0", "0">>,
      <<"D", "a", "t", "e", ":", " ", "1", "0", ":", "2", "0", ":", "3", "0">>,
      <<"X", "-", "E", "m", "p", "t", "y", ":">>,
      <<":", " ", "o", "n", "l", "y">> }

\* Other texts: nothing at all, the zeroed buffer, malformed request lines,
\* a later line with the protocol name, lines after the blank line.
OtherTexts ==
    { <<>>,
      Buffer(<<>>),
      <<"G", "E", "T", " ", "H", "T", "T", "P", "/", "1", ".", "1">>,
      <<"G", "E", "T", " ", "H", "T", "T", "P", "/", "1", ".", "1", "\r", "\n", "H", "o", "s", "t", ":", "l", "o", "c", "a", "l", "h", "o", "s", "t", "\r", "\n", "\r", "\n">>,
      <<"H", "T", "T", "P">>,
      <<"G", "E", "T", " ", "/", " ", "H", "T", "T", "P", "/", "1", ".", "1", "\r", "\n", "H", "o", "s", "t", ":", " ", "l", "o", "c", "a", "l", "h", "o", "s", "t", ":", "3", "0", "0", "0", "\r", "\n", "\r", "\n">>,
      <<"G", "E", "T", " ", "/", " ", "H", "T", "T", "P", "/", "1", ".", "1", "\r", "\n", "A", ":", "1", "\r", "\n", "A", ":", "2", "\r", "\n", "\r", "\n">>,
      <<"G", "E", "T", " ", "/", " ", "H", "T", "T", "P", "/", "1", ".", "1", "\r", "\n", "U", "p", "g", "r", "a", "d", "e", ":", " ", "H", "T", "T", "P", "/", "2", "\r", "\n", "\r", "\n">>,
      <<"P", "O", "S", "T", " ", "/", " ", "H", "T", "T", "P", "/", "1", ".", "1", "\r", "\n", "\r", "\n", "s", "e", "n", "t", " ", "o", "v", "e", "r", " ", "H", "T", "T", "P">>,
      <<"P", "O", "S", "T", " ", "/", " ", "H", "T", "T", "P", "/", "1", ".", "1", "\r", "\n", "\r", "\n", "a", ":", "b">>,
      <<"P", "O", "S", "T", " ", "/", " ", "H", "T", "T", "P", "/", "1", ".", "1", "\r", "\n", "\r", "\n", "l", "i", "n", "e", "1", "\r", "\n", "l", "i", "n", "e", "2">>,
      <<"h", "e", "l", "l", "o">> }

ParseTexts == RequestLineTexts \cup HeaderLines \cup OtherTexts

\* A text is about to be parsed.
ParseInit ==
    /\ PoolIdle
    /\ op = "text"
    /\ arg \in ParseTexts
    /\ res = <<>>

\* Request::from(req_str)
ApplyRequestFrom ==
    /\ op = "text"
    /\ op' = "Request::from"
    /\ res' = Request_from(arg)
    /\ UNCHANGED <<arg, mainPc, thread_count, workers, pc, lock, queue, dropIdx, joining, bind>>
    /\ UNCHANGED jobVars

\* process_req_line(line), for a text of one line
ApplyProcessReqLine ==
    /\ op = "text"
    /\ Len(Lines(arg)) <= 1
    /\ op' = "process_req_line"
    /\ res' = process_req_line(arg)
    /\ UNCHANGED <<arg, mainPc, thread_count, workers, pc, lock, queue, dropIdx, joining, bind>>
    /\ UNCHANGED jobVars

\* process_header(line), for a text of one line
ApplyProcessHeader ==
    /\ op = "text"
    /\ Len(Lines(arg)) <= 1
    /\ op' = "process_header"
    /\ res' = process_header(arg)
    /\ UNCHANGED <<arg, mainPc, thread_count, workers, pc, lock, queue, dropIdx, joining, bind>>
    /\ UNCHANGED jobVars

ParseNext == ApplyRequestFrom \/ ApplyProcessReqLine \/ ApplyProcessHeader

ParseSpec == ParseInit /\ [][ParseNext]_vars

\* ------------------------------------------------ the response on its own
\* The arguments of Response::new: status codes, header maps and bodies.
StatusCodes == {<<"2", "0", "0">>, <<"4", "0", "0">>, <<"4", "0", "4">>, <<"5", "0", "0">>, <<"3", "0", "2">>, <<>>}

HeaderMaps ==
    { None,
      Some([k \in {<<"C", "o", "n", "t", "e", "n", "t", "-", "T", "y", "p", "e">>} |-> <<"t", "e", "x", "t", "/", "h", "t", "m", "l">>]),
      Some([k \in {<<"C", "o", "n", "t", "e", "n", "t", "-", "T", "y", "p", "e">>} |-> <<"a", "p", "p", "l", "i", "c", "a", "t", "i", "o", "n", "/", "j", "s", "o", "n">>]),
      Some([k \in {<<"C", "o", "n", "t", "e", "n", "t", "-", "T", "y", "p", "e">>, <<"S", "e", "r", "v", "e", "r">>} |->
              IF k = <<"S", "e", "r", "v", "e", "r">> THEN <<"r", "u", "s", "t">> ELSE <<"t", "e", "x", "t", "/", "c", "s", "s">>]) }

Bodies == {None, Some(<<>>), Some(<<"h", "e", "l", "l", "o">>), Some(<<"c", "a", "f", "U+00E9">>)}

ResponseArgs ==
    [status_code : StatusCodes, headers : HeaderMaps, body : Bodies, writeOk : BOOLEAN]

\* A handler is about to build a response and the router to send it.
ResponseInit ==
    /\ PoolIdle
    /\ op = "args"
    /\ arg \in ResponseArgs
    /\ res = <<>>

\* Response::new(status_code, headers, body).send(stream)
NewAndSend ==
    /\ op = "args"
    /\ op' = "send"
    /\ res' = [response |-> Response_new(arg.status_code, arg.headers, arg.body),
               ok |-> Response_send(Response_new(arg.status_code, arg.headers, arg.body),
                                    arg.writeOk).ok,
               bytes |-> Response_send(Response_new(arg.status_code, arg.headers, arg.body),
                                       arg.writeOk).bytes]
    /\ UNCHANGED <<arg, mainPc, thread_count, workers, pc, lock, queue, dropIdx, joining, bind>>
    /\ UNCHANGED jobVars

ResponseNext == NewAndSend

ResponseSpec == ResponseInit /\ [][ResponseNext]_vars

\* --------------------------------------- the same request on two connections
\* Two clients send the same text; served[i] is what the job of connection i
\* did, the worker that ran it and the files it found.
TwinIds == {1, 2}

TwinInit ==
    /\ PoolIdle
    /\ op = "twins"
    /\ arg \in [text : ClientTexts, files : FileSystems]
    /\ res = [i \in {} |-> {}]

\* What the job of a connection does when worker w runs it now.
ServedBy(w) ==
    [worker |-> w,
     files |-> arg.files,
     result |-> handle_http_request([text |-> arg.text, files |-> arg.files,
                                     readOk |-> TRUE, writeOk |-> TRUE])]

\* A job that signs its response with the id of its worker.
ServeSigned(i, w) ==
    /\ i \notin DOMAIN res
    /\ res' = [k \in (DOMAIN res) \cup {i} |->
                 IF k # i
                   THEN res[k]
                   ELSE [ServedBy(w) EXCEPT !.result.sent =
                            [n \in DOMAIN ServedBy(w).result.sent |->
                               [ServedBy(w).result.sent[n] EXCEPT !.bytes =
                                  ServedBy(w).result.sent[n].bytes \o Decimal(w)]]]]
    /\ UNCHANGED <<op, arg, mainPc, thread_count, workers, pc, lock, queue, dropIdx,
                   joining, bind>>
    /\ UNCHANGED jobVars

\* Worker w runs the job of connection i, in either order of the connections.
Serve(i, w) ==
    /\ i \notin DOMAIN res
    /\ res' = [k \in (DOMAIN res) \cup {i} |-> IF k = i THEN ServedBy(w) ELSE res[k]]
    /\ UNCHANGED <<op, arg, mainPc, thread_count, workers, pc, lock, queue, dropIdx,
                   joining, bind>>
    /\ UNCHANGED jobVars

\* A file under public is written or removed between the two jobs.
ChangeFiles ==
    /\ DOMAIN res # TwinIds
    /\ \E fs \in FileSystems \ {arg.files} : arg' = [arg EXCEPT !.files = fs]
    /\ UNCHANGED <<op, res, mainPc, thread_count, workers, pc, lock, queue, dropIdx,
                   joining, bind>>
    /\ UNCHANGED jobVars

TwinNext ==
    \/ \E i \in TwinIds, w \in 1..MaxThreads : Serve(i, w)
    \/ ChangeFiles

TwinSpec == TwinInit /\ [][TwinNext]_vars

\* ------------------------------------------------ the conversions of tokens
\* The words of the modelled request texts, with the method and version names
\* of HTTP.
HttpMethodNames ==
    {<<"G", "E", "T">>, <<"H", "E", "A", "D">>, <<"P", "O", "S", "T">>, <<"P", "U", "T">>, <<"D", "E", "L", "E", "T", "E">>, <<"C", "O", "N", "N", "E", "C", "T">>, <<"O", "P", "T", "I", "O", "N", "S">>, <<"T", "R", "A", "C", "E">>, <<"P", "A", "T", "C", "H">>}

HttpVersionNames == {<<"H", "T", "T", "P", "/", "1", ".", "0">>, <<"H", "T", "T", "P", "/", "1", ".", "1">>, <<"H", "T", "T", "P", "/", "2">>}

Tokens ==
    HttpMethodNames \cup HttpVersionNames \cup {<<"g", "e", "t">>, <<"G", "e", "t">>, <<"H", "T", "T", "P", "/", "3">>, <<"h", "t", "t", "p", "/", "1", ".", "1">>, <<>>}
      \cup UNION { {SplitWhitespace(t)[i] : i \in 1..Len(SplitWhitespace(t))} :
                   t \in HeaderLines \cup OtherTexts \cup ClientTexts }

\* A token is about to be converted.
TokenInit ==
    /\ PoolIdle
    /\ op = "token"
    /\ arg \in Tokens
    /\ res = <<>>

\* Method::from(s), "...".into()
ApplyMethodFrom ==
    /\ op = "token"
    /\ op' = "Method::from"
    /\ res' = Method_from(arg)
    /\ UNCHANGED <<arg, mainPc, thread_count, workers, pc, lock, queue, dropIdx, joining, bind>>
    /\ UNCHANGED jobVars

\* ProtocolVersion::from(s)
ApplyProtocolVersionFrom ==
    /\ op = "token"
    /\ op' = "ProtocolVersion::from"
    /\ res' = ProtocolVersion_from(arg)
    /\ UNCHANGED <<arg, mainPc, thread_count, workers, pc, lock, queue, dropIdx, joining, bind>>
    /\ UNCHANGED jobVars

TokenNext == ApplyMethodFrom \/ ApplyProtocolVersionFrom

TokenSpec == TokenInit /\ [][TokenNext]_vars

\* ==================================================== the basic server
\* src/http_server.rs of the first server.

\* The array methods of parse_http_info, in its order.
methods ==
    <<<<"G", "E", "T">>, <<"H", "E", "A", "D">>, <<"P", "O", "S", "T">>, <<"P", "U", "T">>, <<"D", "E", "L", "E", "T", "E">>, <<"C", "O", "N", "N", "E", "C", "T">>, <<"O", "P", "T", "I", "O", "N", "S">>, <<"T", "R", "A", "C", "E">>, <<"P", "A", "T", "C", "H">>>>

\* The loop over methods: every item found anywhere in the line replaces the
\* one before it, so the last such item of the array is left; "GET" when none
\* is found.
http_method(http_info) ==
    LET found == { i \in 1..Len(methods) : Contains(http_info, methods[i]) }
    IN  IF found = {}
          THEN <<"G", "E", "T">>
          ELSE methods[CHOOSE i \in found : \A k \in found : k <= i]

\* str::rfind("HTTP/") and the slice from there to the end of the line;
\* "HTTP/1.1" when the line has no "HTTP/".
http_version(http_info) ==
    LET at == { i \in 1..Len(http_info) :
                  StartsWith(SubSeq(http_info, i, Len(http_info)), <<"H", "T", "T", "P", "/">>) }
    IN  IF at = {}
          THEN <<"H", "T", "T", "P", "/", "1", ".", "1">>
          ELSE SubSeq(http_info, CHOOSE i \in at : \A k \in at : k <= i, Len(http_info))

\* parse_http_info: lines().next().unwrap() panics on a text without a line;
\* the subtraction and the slice &http_info[start..end] panic when the range
\* is not inside the line.
parse_http_info(http_req_str) ==
    LET http_info == Lines(http_req_str)[1]
        req_path_start == Len(http_method(http_info)) + 1
    IN  IF Lines(http_req_str) = <<>>
          THEN Panicked
          ELSE IF Len(http_info) < Len(http_version(http_info)) + 1
                    \/ req_path_start > Len(http_info) - Len(http_version(http_info)) - 1
            THEN Panicked
            ELSE [ok |-> TRUE,
                  method |-> http_method(http_info),
                  path |-> SubSeq(http_info, req_path_start + 1,
                                  Len(http_info) - Len(http_version(http_info)) - 1),
                  version |-> http_version(http_info)]

\* The request lines given to parse_http_info.
BasicPaths == {<<"/">>, <<"/", "t", "e", "s", "t", ".", "h", "t", "m", "l">>, <<"/", "P", "O", "S", "T">>, <<"/", "a", "/", "D", "E", "L", "E", "T", "E", ".", "h", "t", "m", "l">>, <<"/", "O", "P", "T", "I", "O", "N", "S", "/", "x">>}

BasicVersions == {<<"H", "T", "T", "P", "/", "1", ".", "1">>, <<"H", "T", "T", "P", "/", "2">>, <<"H", "T", "T", "P", "/", "2", ".", "0">>}

BasicEnds == {<<"\r", "\n">>, <<"\r", "\n", "H", "o", "s", "t", ":", " ", "l", "o", "c", "a", "l", "h", "o", "s", "t", "\r", "\n", "\r", "\n">>}

BasicTexts ==
    { Concat(<<methods[i], <<" ">>, p, <<" ">>, v, e>>) :
        i \in 1..Len(methods), p \in BasicPaths, v \in BasicVersions, e \in BasicEnds }

\* A request text is about to be parsed by the basic server.
BasicInit ==
    /\ PoolIdle
    /\ op = "http_req_str"
    /\ arg \in BasicTexts
    /\ res = <<>>

\* parse_http_info(http_req_str)
ApplyParseHttpInfo ==
    /\ op = "http_req_str"
    /\ op' = "parse_http_info"
    /\ res' = parse_http_info(arg)
    /\ UNCHANGED <<arg, mainPc, thread_count, workers, pc, lock, queue, dropIdx, joining, bind>>
    /\ UNCHANGED jobVars

BasicNext == ApplyParseHttpInfo

BasicSpec == BasicInit /\ [][BasicNext]_vars

\* fs::metadata(path).is_ok(): the resolved path is a regular file or a
\* directory, that is a proper beginning of the path of a file.
PathExists(files, path) ==
    LET r == Resolve(<<>>, Split(path, "/"))
    IN  \/ r \in DOMAIN files
        \/ \E f \in DOMAIN files : Len(r) < Len(f) /\ SubSeq(f, 1, Len(r)) = r

\* get_response: the status line and the path of the file to send.  config.path
\* is the public directory.
get_response(files, http_req_str) ==
    LET info == parse_http_info(http_req_str)
        route_path == IF info.path = <<"/">> THEN <<"/", "i", "n", "d", "e", "x", ".", "h", "t", "m", "l">> ELSE info.path
        req_file_path == PublicPath \o route_path
    IN  IF ~info.ok
          THEN Panicked
          ELSE IF info.method # <<"G", "E", "T">> \/ ~PathExists(files, req_file_path)
            THEN [ok |-> TRUE,
                  status_line |-> info.version \o <<" ", "4", "0", "4", " ", "N", "O", "T", " ", "F", "O", "U", "N", "D">>,
                  file_path |-> PublicPath \o <<"/", "4", "0", "4", ".", "h", "t", "m", "l">>,
                  slept |-> info.path = <<"/", "s", "l", "e", "e", "p", ".", "h", "t", "m", "l">>]
            ELSE [ok |-> TRUE,
                  status_line |-> info.version \o <<" ", "2", "0", "0", " ", "O", "K">>,
                  file_path |-> req_file_path,
                  slept |-> info.path = <<"/", "s", "l", "e", "e", "p", ".", "h", "t", "m", "l">>]

\* handle_request on a connection: read, get_response, fs::read_to_string of
\* the returned path and unwrap(), write_all and flush.  A path that is no
\* regular file makes the unwrap() panic.
handle_request(conn) ==
    LET response == get_response(conn.files, Buffer(conn.text))
        file == Resolve(<<>>, Split(response.file_path, "/"))
        failed == [returned |-> FALSE, status_line |-> <<>>, file_path |-> <<>>,
                   read |-> {}, bytes |-> <<>>]
    IN  IF ~conn.readOk \/ ~response.ok
          THEN failed
          ELSE IF file \notin DOMAIN conn.files
            THEN [failed EXCEPT !.status_line = response.status_line,
                                !.file_path = response.file_path]
            ELSE [returned |-> conn.writeOk,
                  status_line |-> response.status_line,
                  file_path |-> response.file_path,
                  read |-> {file},
                  bytes |-> Concat(<<response.status_line, <<"\r", "\n", "C", "o", "n", "t", "e", "n", "t", "-", "L", "e", "n", "g", "t", "h", ":", " ">>,
                                     Decimal(ByteLen(conn.files[file])), <<"\r", "\n", "\r", "\n">>,
                                     conn.files[file]>>)]

\* The texts a client of the basic server sends.
BasicClientTexts ==
    { <<>>,
      <<"G", "E", "T", " ", "/", " ", "H", "T", "T", "P", "/", "1", ".", "1", "\r", "\n", "\r", "\n">>,
      <<"G", "E", "T", " ", "/", "i", "n", "d", "e", "x", ".", "h", "t", "m", "l", " ", "H", "T", "T", "P", "/", "1", ".", "1", "\r", "\n", "H", "o", "s", "t", ":", " ", "l", "o", "c", "a", "l", "h", "o", "s", "t", "\r", "\n", "\r", "\n">>,
      <<"G", "E", "T", " ", "/", "i", "n", "d", "e", "x", ".", "h", "t", "m", "l", " ", "H", "T", "T", "P", "/", "1", ".", "1">>,
      <<"G", "E", "T", " ", "/", "a", ".", "c", "s", "s", " ", "H", "T", "T", "P", "/", "2", "\r", "\n", "\r", "\n">>,
      <<"G", "E", "T", " ", "/", "c", "s", "s", "/", "a", ".", "c", "s", "s", " ", "H", "T", "T", "P", "/", "1", ".", "1", "\r", "\n", "\r", "\n">>,
      <<"G", "E", "T", " ", "/", "c", "s", "s", " ", "H", "T", "T", "P", "/", "1", ".", "1", "\r", "\n", "\r", "\n">>,
      <<"G", "E", "T", " ", "/", "m", "i", "s", "s", "i", "n", "g", ".", "h", "t", "m", "l", " ", "H", "T", "T", "P", "/", "1", ".", "1", "\r", "\n", "\r", "\n">>,
      <<"G", "E", "T", " ", "/", "s", "l", "e", "e", "p", ".", "h", "t", "m", "l", " ", "H", "T", "T", "P", "/", "1", ".", "1", "\r", "\n", "\r", "\n">>,
      <<"G", "E", "T", " ", "/", "P", "O", "S", "T", " ", "H", "T", "T", "P", "/", "1", ".", "1", "\r", "\n", "\r", "\n">>,
      <<"G", "E", "T", " ", "/", ".", ".", " ", "H", "T", "T", "P", "/", "1", ".", "1", "\r", "\n", "\r", "\n">>,
      <<"G", "E", "T", " ", "/", ".", ".", "/", "s", "e", "c", "r", "e", "t", " ", "H", "T", "T", "P", "/", "1", ".", "1", "\r", "\n", "\r", "\n">>,
      <<"G", "E", "T", " ", "/", "c", "s", "s", "/", ".", ".", "/", ".", ".", "/", "s", "e", "c", "r", "e", "t", " ", "H", "T", "T", "P", "/", "1", ".", "1", "\r", "\n", "\r", "\n">>,
      <<"G", "E", "T", " ", "/", "c", "s", "s", "/", ".", ".", "/", "i", "n", "d", "e", "x", ".", "h", "t", "m", "l", " ", "H", "T", "T", "P", "/", "1", ".", "1", "\r", "\n", "\r", "\n">>,
      <<"P", "O", "S", "T", " ", "/", " ", "H", "T", "T", "P", "/", "1", ".", "1", "\r", "\n", "\r", "\n">>,
      <<"P", "O", "S", "T", " ", "/", ".", ".", "/", "s", "e", "c", "r", "e", "t", " ", "H", "T", "T", "P", "/", "1", ".", "1", "\r", "\n", "\r", "\n">>,
      <<"H", "E", "A", "D", " ", "/", "i", "n", "d", "e", "x", ".", "h", "t", "m", "l", " ", "H", "T", "T", "P", "/", "1", ".", "1", "\r", "\n", "\r", "\n">> }

\* The disk with a file whose name is also the name of a method.
BasicFiles == [f \in (DOMAIN AllFiles) \cup {<<PublicPath, <<"P", "O", "S", "T">>>>} |->
                 IF f \in DOMAIN AllFiles THEN AllFiles[f] ELSE <<"p", "o", "s", "t">>]

BasicFileSystems ==
    { BasicFiles,
      Without(BasicFiles, {NotFoundPage}),
      Without(BasicFiles, {<<PublicPath, <<"i", "n", "d", "e", "x", ".", "h", "t", "m", "l">>>>, <<<<"s", "e", "c", "r", "e", "t">>>>}) }

BasicConnections ==
    [text : BasicClientTexts, files : BasicFileSystems, readOk : BOOLEAN, writeOk : BOOLEAN]

\* A connection of the basic server has been accepted and given to a job.
BasicConnInit ==
    /\ PoolIdle
    /\ op = "stream"
    /\ arg \in BasicConnections
    /\ res = <<>>

\* The job of listen: handle_request(stream, config_arc)
HandleRequest ==
    /\ op = "stream"
    /\ op' = "handle_request"
    /\ res' = handle_request(arg)
    /\ UNCHANGED <<arg, mainPc, thread_count, workers, pc, lock, queue, dropIdx, joining, bind>>
    /\ UNCHANGED jobVars

BasicConnNext == HandleRequest

BasicConnSpec == BasicConnInit /\ [][BasicConnNext]_vars

\* The process has ended with a status other than 0: a panic of the main thread
\* (101) or an abort.
ExitedNonZero == mainPc \in {"failed", "dropped", "abort"}

\* C13 (as claimed): once bind has failed, the process does not exit with status
\* 0 and does not hang: it has exited with a non-zero status or some thread of
\* it can still take a step.
C13_BindFailureExitsNonZero ==
    (bind = "err") =>
        /\ mainPc # "exit0"
        /\ (ExitedNonZero \/ ENABLED ListenNext)

\* The handlers Router::route chooses from.
Handlers == {"ApiHandler", "StaticFileHandler", "NotFoundHandler"}

\* C12: the job of an accepted connection reads one request and calls send
\* exactly once on every routing path (ApiHandler, StaticFileHandler,
\* StaticFileHandler falling back to NotFoundHandler, NotFoundHandler for a
\* request that is not GET); then the connection is closed.  No connection gets
\* two responses or a second read.
C12_OneRequestOneResponse ==
    op = "handled" =>
        /\ res.reads = 1
        /\ res.closed
        /\ Len(res.sent) <= 1
        /\ res.selected \in Handlers => Len(res.sent) = 1
        /\ res.returned => (Len(res.sent) = 1 /\ res.sent[1].ok)

\* A GET of a file that does not exist was answered by the 404 page, once.
C12_Witness ==
    /\ op = "handled"
    /\ res.returned
    /\ res.selected = "StaticFileHandler"
    /\ Len(res.loaded) = 2
    /\ Len(res.sent) = 1

\* C14: every request whose method is not GET is given to NotFoundHandler and
\* answered with status 404, whatever its path (also under /api) and also when
\* its method is not a known one.
C14_NonGetIsNotFound ==
    (op = "handled" /\ res.request.ok /\ res.request.method # "Get") =>
        /\ res.selected = "NotFoundHandler"
        /\ Len(res.sent) = 1
        /\ res.sent[1].response.status_code = <<"4", "0", "4">>
        /\ StartsWith(res.sent[1].bytes, <<"H", "T", "T", "P", "/", "1", ".", "1", " ", "4", "0", "4", " ", "N", "o", "t", " ", "F", "o", "u", "n", "d", "\r", "\n">>)

\* A POST under /api was answered with 404.
C14_Witness ==
    /\ op = "handled"
    /\ res.request.ok
    /\ res.request.method = "Post"
    /\ res.request.resource = <<"/", "a", "p", "i", "/", "u", "s", "e", "r">>
    /\ res.selected = "NotFoundHandler"
    /\ res.returned

\* The pieces of a path between its '/' that are not empty.
NonEmptyPiece(piece) == piece # <<>>

Segments(path) == SelectSeq(Split(path, "/"), NonEmptyPiece)

\* C15 (as claimed): a GET request is given to ApiHandler if and only if the
\* first non-empty segment of its path is "api", and to StaticFileHandler
\* otherwise.
C15_ApiIffFirstSegment ==
    (op = "handled" /\ res.request.ok /\ res.request.method = "Get") =>
        /\ res.selected \in {"ApiHandler", "StaticFileHandler"}
        /\ (res.selected = "ApiHandler") <=>
               (Segments(res.request.resource) # <<>>
                  /\ Segments(res.request.resource)[1] = <<"a", "p", "i">>)

\* The token a Method variant stands for; Uninitialized stands for none.
MethodName(method) ==
    CASE method = "Get" -> <<"G", "E", "T">>
      [] method = "Post" -> <<"P", "O", "S", "T">>
      [] method = "Put" -> <<"P", "U", "T">>
      [] method = "Patch" -> <<"P", "A", "T", "C", "H">>
      [] method = "Delete" -> <<"D", "E", "L", "E", "T", "E">>
      [] OTHER -> <<>>

\* The token a ProtocolVersion variant stands for.
VersionName(version) ==
    CASE version = "HTTP1_1" -> <<"H", "T", "T", "P", "/", "1", ".", "1">>
      [] version = "HTTP2" -> <<"H", "T", "T", "P", "/", "2">>
      [] OTHER -> <<>>

\* The parse result names the tokens m, p and v.
Yields(r, m, p, v) ==
    /\ r.ok
    /\ MethodName(r.method) = m
    /\ r.resource = p
    /\ VersionName(r.protocol_version) = v

\* C16 (as claimed): for every request line "METHOD PATH VERSION" of three
\* tokens separated by single spaces, process_req_line on the line and
\* Request::from on a text containing it yield exactly that method, path and
\* version, whatever white space or line ending surrounds the line.
C16_RequestLineTokens ==
    \A s \in LineStarts, m \in MethodTokens, p \in PathTokens, v \in VersionTokens :
        /\ \A e \in LineEnds :
              (op = "process_req_line" /\ arg = Concat(<<s, RequestLineOf(m, p, v), e>>))
                  => Yields(res, m, p, v)
        /\ \A e \in LineEnds \cup {TestTail} :
              (op = "Request::from" /\ arg = Concat(<<s, RequestLineOf(m, p, v), e>>))
                  => Yields(res, m, p, v)

\* A Request with every field UNKNOWN or empty.
EmptyRequest(r) ==
    /\ r.ok
    /\ r.method = "Uninitialized"
    /\ r.protocol_version = "Uninitialized"
    /\ r.resource = <<>>
    /\ DOMAIN r.headers = {}
    /\ r.body = <<>>

\* C17 (as claimed): parsing an empty request buffer does not fail and gives a
\* Request with method and version UNKNOWN, empty path, no headers and empty
\* body, for the empty text and for the zeroed buffer handle_http_request
\* passes when nothing was read.
C17_EmptyBufferParsesToEmptyRequest ==
    (op = "Request::from" /\ arg \in {<<>>, Buffer(<<>>)}) => EmptyRequest(res)

\* The request line of a text has fewer than three words.
ShortRequestLine(text) ==
    /\ Lines(text) # <<>>
    /\ Contains(Lines(text)[1], <<"H", "T", "T", "P">>)
    /\ Len(SplitWhitespace(Lines(text)[1])) < 3

\* C18 (as claimed): a request line with fewer than three words ("GET
\* HTTP/1.1", "HTTP") never aborts parsing: Request::from returns a Request
\* whose missing fields are UNKNOWN or empty.
C18_ShortRequestLineDegrades ==
    (op = "Request::from" /\ ShortRequestLine(arg)) =>
        /\ res.ok
        /\ res.protocol_version = "Uninitialized" \/ res.resource = <<>>

\* The text of a header line before its first ':' and the whole text after it.
BeforeColon(line) == SubSeq(line, 1, IndexOf(line, ":") - 1)

AfterColon(line) == SubSeq(line, IndexOf(line, ":") + 1, Len(line))

\* C19 (as claimed): a header line is split at its first ':' only; the key is
\* the trimmed text before it and the value the trimmed whole remainder,
\* further colons included ("Host: localhost:3000" gives "localhost:3000").
C19_HeaderSplitAtFirstColon ==
    (op = "process_header" /\ Contains(arg, <<":">>)) =>
        /\ res.key = Trim(BeforeColon(arg))
        /\ res.val = Trim(AfterColon(arg))

\* The text of a response before its first blank line.
HeadOf(bytes) ==
    IF Contains(bytes, <<"\r", "\n", "\r", "\n">>)
      THEN SubSeq(bytes, 1,
                  (CHOOSE i \in 1..Len(bytes) :
                      /\ StartsWith(SubSeq(bytes, i, Len(bytes)), <<"\r", "\n", "\r", "\n">>)
                      /\ \A k \in 1..(i - 1) :
                            ~StartsWith(SubSeq(bytes, k, Len(bytes)), <<"\r", "\n", "\r", "\n">>)) - 1)
      ELSE bytes

\* C20 (as claimed): the bytes written by send are the status line
\* "{version} {code} {text}", the Content-Length header, every other header
\* the Response holds (such as Content-Type), a blank line and the body, in
\* this order.
C20_SendWritesStatusHeadersBody ==
    (op = "send" /\ res.ok) =>
        /\ StartsWith(res.bytes,
                      Concat(<<res.response.protocol_version, <<" ">>,
                               res.response.status_code, <<" ">>,
                               res.response.status_text, <<"\r", "\n", "C", "o", "n", "t", "e", "n", "t", "-", "L", "e", "n", "g", "t", "h">>>>))
        /\ \A k \in DOMAIN res.response.headers[1] :
              /\ Contains(HeadOf(res.bytes), k)
              /\ Contains(HeadOf(res.bytes), res.response.headers[1][k])
        /\ EndsWith(res.bytes, <<"\r", "\n", "\r", "\n">> \o Response_body(res.response))

\* The text of a response after its first blank line.
BodyOf(bytes) == SubSeq(bytes, Len(HeadOf(bytes)) + 5, Len(bytes))

\* The number a text of decimal digits stands for.
RECURSIVE DecimalValue(_)
DecimalValue(digits) ==
    IF digits = <<>>
      THEN 0
      ELSE 10 * DecimalValue(SubSeq(digits, 1, Len(digits) - 1))
             + (CHOOSE d \in 0..9 : Decimal(d) = <<digits[Len(digits)]>>)

\* The lines of the head of a response that are Content-Length headers.
IsContentLength(line) == StartsWith(line, <<"C", "o", "n", "t", "e", "n", "t", "-", "L", "e", "n", "g", "t", "h", ":">>)

ContentLengthLines(bytes) == SelectSeq(Lines(HeadOf(bytes)), IsContentLength)

\* C21: for every Response that is sent, also one without a body and one whose
\* body has multi-byte characters, the Content-Length written is the number of
\* bytes of the body after the blank line (0 for no body), not its number of
\* characters.
C21_ContentLengthIsByteLength ==
    (op = "send" /\ res.ok) =>
        /\ Len(ContentLengthLines(res.bytes)) = 1
        /\ DecimalValue(Trim(AfterColon(ContentLengthLines(res.bytes)[1])))
             = ByteLen(BodyOf(res.bytes))
        /\ BodyOf(res.bytes) = Response_body(res.response)
        /\ res.response.body = None => ByteLen(BodyOf(res.bytes)) = 0

\* A body with a two-byte character was sent: its bytes outnumber its characters.
C21_Witness ==
    /\ op = "send"
    /\ res.ok
    /\ res.response.body # None
    /\ ByteLen(BodyOf(res.bytes)) > Len(BodyOf(res.bytes))

\* The status text of each status code with an entry in the table.
StatusTable ==
    (<<"2", "0", "0">> :> <<"O", "K">>)
      @@ (<<"4", "0", "0">> :> <<"B", "a", "d", " ", "R", "e", "q", "u", "e", "s", "t">>)
      @@ (<<"4", "0", "4">> :> <<"N", "o", "t", " ", "F", "o", "u", "n", "d">>)
      @@ (<<"5", "0", "0">> :> <<"I", "n", "t", "e", "r", "n", "a", "l", " ", "S", "e", "r", "v", "e", "r", " ", "E", "r", "r", "o", "r">>)

\* C22: Response::new gives the status text of the table 200 OK, 400 Bad
\* Request, 404 Not Found, 500 Internal Server Error to these codes and "Not
\* Found" to every other code, and keeps the status code it was given.
C22_StatusTextFromTable ==
    op = "send" =>
        /\ res.response.status_code = arg.status_code
        /\ res.response.status_text =
               IF arg.status_code \in DOMAIN StatusTable
                 THEN StatusTable[arg.status_code]
                 ELSE <<"N", "o", "t", " ", "F", "o", "u", "n", "d">>

\* A response with a status code outside the table was built.
C22_Witness ==
    /\ op = "send"
    /\ res.response.status_code = <<"3", "0", "2">>
    /\ res.response.status_text = <<"N", "o", "t", " ", "F", "o", "u", "n", "d">>

\* The file a request path names under the public directory, "/" naming
\* index.html.
RequestedFile(resource) ==
    Resolve(<<>>, Split(Concat(<<PublicPath, <<"/">>,
                                 IF resource = <<"/">> THEN <<"i", "n", "d", "e", "x", ".", "h", "t", "m", "l">> ELSE resource>>),
                        "/"))

\* A GET request outside /api was read and parsed.
StaticGet ==
    /\ op = "handled"
    /\ res.request.ok
    /\ res.request.method = "Get"
    /\ Segments(res.request.resource) = <<>> \/ Segments(res.request.resource)[1] # <<"a", "p", "i">>

\* C23 (as claimed): a GET request for a file that does not exist under the
\* root directory is answered with 404 Not Found and the contents of 404.html
\* as body; the job does not fail and the answer is never a 200.
C23_MissingFileIs404 ==
    (/\ StaticGet
     /\ arg.writeOk
     /\ RequestedFile(res.request.resource) \notin DOMAIN arg.files
     /\ NotFoundPage \in DOMAIN arg.files) =>
        /\ res.returned
        /\ Len(res.sent) = 1
        /\ res.sent[1].response.status_code = <<"4", "0", "4">>
        /\ res.sent[1].response.status_text = <<"N", "o", "t", " ", "F", "o", "u", "n", "d">>
        /\ BodyOf(res.sent[1].bytes) = arg.files[NotFoundPage]

\* NotFoundHandler built the response that was sent: 404.html is the file read
\* last.
NotFoundHandlerRan ==
    /\ op = "handled"
    /\ res.loaded # <<>>
    /\ res.loaded[Len(res.loaded)] = Concat(<<PublicPath, <<"/", "4", "0", "4", ".", "h", "t", "m", "l">>>>)

\* C24: when 404.html itself is missing, NotFoundHandler still gives a
\* well-formed response: status 404, empty body, Content-Length 0; the job does
\* not fail.
C24_Missing404PageStillAnswers ==
    (NotFoundHandlerRan /\ NotFoundPage \notin DOMAIN arg.files /\ arg.writeOk) =>
        /\ res.returned
        /\ Len(res.sent) = 1
        /\ res.sent[1].response.status_code = <<"4", "0", "4">>
        /\ res.sent[1].response.body = None
        /\ res.sent[1].bytes = <<"H", "T", "T", "P", "/", "1", ".", "1", " ", "4", "0", "4", " ", "N", "o", "t", " ", "F", "o", "u", "n", "d", "\r", "\n", "C", "o", "n", "t", "e", "n", "t", "-", "L", "e", "n", "g", "t", "h", ":", "0", "\r", "\n", "\r", "\n">>

\* A POST was answered while 404.html was missing.
C24_Witness ==
    /\ NotFoundHandlerRan
    /\ NotFoundPage \notin DOMAIN arg.files
    /\ res.selected = "NotFoundHandler"
    /\ res.returned
    /\ BodyOf(res.sent[1].bytes) = <<>>

\* A path with a ".." between two '/' or at one of its ends.
HasDotDot(resource) ==
    \E i \in 1..Len(Split(resource, "/")) : Split(resource, "/")[i] = <<".", ".">>

\* The regular files a job read that are not under the public directory.
ReadOutside(files, loaded) ==
    { i \in 1..Len(loaded) :
        /\ Resolve(<<>>, Split(loaded[i], "/")) \in DOMAIN files
        /\ Head(Resolve(<<>>, Split(loaded[i], "/"))) # PublicPath }

\* C25 (as claimed): for every GET request whose path has a ".." segment,
\* StaticFileHandler reads no file outside the root directory, and the outcome
\* is a 404 or a rejection.
C25_DotDotIs404OrRejected ==
    (StaticGet /\ arg.writeOk /\ HasDotDot(res.request.resource)) =>
        /\ ReadOutside(arg.files, res.loaded) = {}
        /\ \/ ~res.returned
           \/ res.sent[1].response.status_code = <<"4", "0", "4">>

\* Both connections were served and found the same files.
TwinsServedAlike == DOMAIN res = TwinIds /\ res[1].files = res[2].files

\* The text sent on a connection, all calls of send together.
RECURSIVE BytesSent(_)
BytesSent(sent) == IF sent = <<>> THEN <<>> ELSE Head(sent).bytes \o BytesSent(Tail(sent))

UnderApi(resource) == resource = <<"/", "a", "p", "i">> \/ StartsWith(resource, <<"/", "a", "p", "i", "/">>)

\* C27 (as claimed): every GET request whose path is under /api is answered
\* with 200 OK, a body that is exactly {"errno":0,"msg":"success","data":null}
\* and Content-Type application/json.
C27_ApiAnswer ==
    (/\ op = "handled"
     /\ res.request.ok
     /\ res.request.method = "Get"
     /\ UnderApi(res.request.resource)
     /\ arg.writeOk) =>
        /\ res.returned
        /\ StartsWith(res.sent[1].bytes, <<"H", "T", "T", "P", "/", "1", ".", "1", " ", "2", "0", "0", " ", "O", "K", "\r", "\n">>)
        /\ BodyOf(res.sent[1].bytes) = <<"{", "\"", "e", "r", "r", "n", "o", "\"", ":", "0", ",", "\"", "m", "s", "g", "\"", ":", "\"", "s", "u", "c", "c", "e", "s", "s", "\"", ",", "\"", "d", "a", "t", "a", "\"", ":", "n", "u", "l", "l", "}">>
        /\ Contains(HeadOf(res.sent[1].bytes), <<"C", "o", "n", "t", "e", "n", "t", "-", "T", "y", "p", "e">>)
        /\ Contains(HeadOf(res.sent[1].bytes), <<"a", "p", "p", "l", "i", "c", "a", "t", "i", "o", "n", "/", "j", "s", "o", "n">>)

\* C28 (as claimed): Method::from gives each of the nine names GET, HEAD, POST,
\* PUT, DELETE, CONNECT, OPTIONS, TRACE, PATCH its own variant and every other
\* token UNKNOWN; ProtocolVersion::from gives HTTP/1.0, HTTP/1.1 and HTTP/2
\* their own variants and every other token UNKNOWN.
C28_NineMethodsThreeVersions ==
    /\ op = "Method::from" =>
          IF arg \in HttpMethodNames
            THEN res # "Uninitialized" /\ MethodName(res) = arg
            ELSE res = "Uninitialized"
    /\ op = "ProtocolVersion::from" =>
          IF arg \in HttpVersionNames
            THEN res # "Uninitialized" /\ VersionName(res) = arg
            ELSE res = "Uninitialized"

\* C29 (as claimed): parse_http_info returns the three tokens of the first
\* line "METHOD PATH VERSION" for every method of its list of nine, every path
\* and every version beginning with "HTTP/", also when the path contains the
\* name of a method.
C29_ParseHttpInfoTokens ==
    \A i \in 1..Len(methods), p \in BasicPaths, v \in BasicVersions, e \in BasicEnds :
        (op = "parse_http_info" /\ arg = Concat(<<methods[i], <<" ">>, p, <<" ">>, v, e>>)) =>
            /\ res.ok
            /\ res.method = methods[i]
            /\ res.path = p
            /\ res.version = v

\* A text whose first line is a request line of three words and which has a
\* later line with "HTTP" in it.
LaterProtocolLine(text) ==
    /\ Len(Lines(text)) >= 2
    /\ Contains(Lines(text)[1], <<"H", "T", "T", "P">>)
    /\ process_req_line(Lines(text)[1]).ok
    /\ \E i \in 2..Len(Lines(text)) : Contains(Lines(text)[i], <<"H", "T", "T", "P">>)

\* C30 (as claimed): only the first line with the protocol name is the request
\* line; a later line that contains "HTTP" (a header like "Upgrade: HTTP/2", a
\* body line) changes neither method, path nor version and does not make
\* parsing fail.
C30_OnlyFirstProtocolLine ==
    (op = "Request::from" /\ LaterProtocolLine(arg)) =>
        /\ res.ok
        /\ res.method = process_req_line(Lines(arg)[1]).method
        /\ res.resource = process_req_line(Lines(arg)[1]).resource
        /\ res.protocol_version = process_req_line(Lines(arg)[1]).protocol_version

\* The lines of a text after its first empty line that have a ':' and no "HTTP".
ColonLinesAfterBlank(text) ==
    { i \in 1..Len(Lines(text)) :
        /\ \E k \in 1..(i - 1) : Lines(text)[k] = <<>>
        /\ Contains(Lines(text)[i], <<":">>)
        /\ ~Contains(Lines(text)[i], <<"H", "T", "T", "P">>) }

\* C31 (as claimed): a blank line ends the headers: a line with ':' that comes
\* after the first blank line is not put into the header mapping but is body
\* text.
C31_BlankLineEndsHeaders ==
    (op = "Request::from" /\ res.ok) =>
        \A i \in ColonLinesAfterBlank(arg) :
            /\ process_header(Lines(arg)[i]).key \notin DOMAIN res.headers
            /\ i = Len(Lines(arg)) => res.body = Lines(arg)[i]

\* C32 (as claimed): Router::route builds and sends a response for every GET
\* request whatever its path, also a path without '/', and the connection job
\* does not fail.
C32_EveryGetIsAnswered ==
    (op = "handled" /\ res.request.ok /\ res.request.method = "Get" /\ arg.writeOk) =>
        /\ res.returned
        /\ res.selected \in Handlers
        /\ Len(res.sent) = 1

\* C33 (as claimed): StaticFileHandler resolves the whole request path under
\* the root directory: for GET /css/a.css the file read is public/css/a.css,
\* not a file named by the first segment alone.
C33_WholePathResolved ==
    (op = "handled" /\ res.selected = "StaticFileHandler") =>
        /\ res.loaded # <<>>
        /\ Resolve(<<>>, Split(res.loaded[1], "/")) = RequestedFile(res.request.resource)

\* The words of the first line of a request text.
FirstLineWords(text) == IF Lines(text) = <<>> THEN <<>> ELSE SplitWhitespace(Lines(text)[1])

\* A request of the basic server was read whose first line has three words.
BasicRequestRead ==
    /\ op = "handle_request"
    /\ arg.readOk
    /\ Len(FirstLineWords(arg.text)) = 3

\* A resolved path under the public directory.
InsidePublic(file) == Len(file) >= 2 /\ Head(file) = PublicPath

\* C34 (as claimed): for every request whose path has a ".." segment, the file
\* path get_response returns and handle_request reads stays inside the public
\* directory, or is the 404 page.
C34_BasicDotDotStaysInside ==
    (BasicRequestRead /\ HasDotDot(FirstLineWords(arg.text)[2])) =>
        /\ res.file_path # <<>> =>
              InsidePublic(Resolve(<<>>, Split(res.file_path, "/")))
        /\ \A f \in res.read : InsidePublic(f)

\* The path get_response is asked for, "/" standing for /index.html.
RoutePath(text) ==
    IF FirstLineWords(text)[2] = <<"/">> THEN <<"/", "i", "n", "d", "e", "x", ".", "h", "t", "m", "l">> ELSE FirstLineWords(text)[2]

\* The request is a GET for a file that exists.
GetOfExistingFile ==
    /\ FirstLineWords(arg.text)[1] = <<"G", "E", "T">>
    /\ Resolve(<<>>, Split(PublicPath \o RoutePath(arg.text), "/")) \in DOMAIN arg.files

\* C35 (as claimed): get_response returns a status line ending in "200 OK" and
\* the path of the requested file if and only if the method is GET and the
\* file exists; in every other case a status line ending in "404 NOT FOUND"
\* and the path of 404.html; "/" is taken as /index.html.
C35_GetResponse200IffGetAndExists ==
    BasicRequestRead =>
        IF GetOfExistingFile
          THEN /\ EndsWith(res.status_line, <<" ", "2", "0", "0", " ", "O", "K">>)
               /\ res.file_path = PublicPath \o RoutePath(arg.text)
          ELSE /\ EndsWith(res.status_line, <<" ", "4", "0", "4", " ", "N", "O", "T", " ", "F", "O", "U", "N", "D">>)
               /\ res.file_path = PublicPath \o <<"/", "4", "0", "4", ".", "h", "t", "m", "l">>

\* C36: a worker holds the lock on the shared receiver only while it waits for
\* and takes one message and has released it before the job runs: no worker
\* that runs a job, or has died in one, holds the lock, so such a worker never
\* keeps another worker from locking the receiver.
C36_LockReleasedBeforeJob ==
    /\ \A w \in WorkerIds : w \in lock => pc[w] = "recv"
    /\ \A w \in WorkerIds : pc[w] \in {"run", "panicked"} => w \notin lock
    /\ \A w, v \in WorkerIds :
          (/\ pc[w] \in {"run", "panicked"}
           /\ pc[v] = "lock"
           /\ \A u \in WorkerIds : pc[u] # "recv"
           /\ ProcessAlive)
              => ENABLED Lock(v)

\* One worker runs a job while another one holds the lock and waits in recv().
C36_Witness ==
    \E w, v \in WorkerIds : pc[w] = "run" /\ pc[v] = "recv" /\ v \in lock

\* C37 (as claimed): while the pool has not been shut down, execute never
\* fails: after any earlier jobs, failed ones included, a call of execute
\* enqueues its job and returns to the acceptor.
C37_ExecuteNeverFails ==
    [][(mainPc = "accept" /\ \E k \in JobKinds : Execute(k))
          => (mainPc' = "accept" /\ Len(queue') = Len(queue) + 1)]_vars

\* The lines of a text that are not empty and have neither "HTTP" nor ':'.
BodyLines(text) ==
    { i \in 1..Len(Lines(text)) :
        /\ Lines(text)[i] # <<>>
        /\ ~Contains(Lines(text)[i], <<"H", "T", "T", "P">>)
        /\ ~Contains(Lines(text)[i], <<":">>) }

\* C38: the parsed body is a single line: of several non-empty lines with
\* neither "HTTP" nor ':' Request::from keeps the last one only, and without
\* such a line the body is empty.
C38_BodyIsLastPlainLine ==
    (op = "Request::from" /\ res.ok) =>
        IF BodyLines(arg) = {}
          THEN res.body = <<>>
          ELSE res.body =
                 Lines(arg)[CHOOSE i \in BodyLines(arg) : \A k \in BodyLines(arg) : k <= i]

\* A request with two body lines was parsed and the second one is its body.
C38_Witness ==
    /\ op = "Request::from"
    /\ res.ok
    /\ \E i, k \in BodyLines(arg) : i < k
    /\ res.body = <<"l", "i", "n", "e", "2">>

====
